---- MODULE Spec2Model ----
(***************************************************************************)
(* A model of uzlang: the parser (src/uzlang/src/parser.rs) on the tokens  *)
(* of the lexer (src/uzlang/src/lexer.rs), and the tree-walking            *)
(* interpreter with its URL safety policy (src/uzlang/src/interpreter.rs). *)
(*                                                                         *)
(* Strings are sequences of one-character strings.  A Value is a record    *)
(* tagged by t; an Array value holds the address rc of a cell of heap,     *)
(* which stands for the Rc<Vec<Value>> allocation, and the strong count of *)
(* a cell is the number of live handles to it.                             *)
(***************************************************************************)
EXTENDS Integers, Sequences, FiniteSets, TLC

VARIABLES
    \* Interpreter (interpreter.rs:46-50) and the Rust call stack running it
    env_stack, functions, heap, stack, ret, out, status, ev,
    overflow_checks, requests,
    \* is_safe_ip / is_safe_url under test
    ip, ip_safe, url, dns, url_safe, net_call, net_sent, net_ret,
    \* Parser (parser.rs:29-32)
    tokens, pos, stmts, perrs, pdone,
    \* Lexer (lexer.rs:29-32) and the token vector tokenize builds
    input, lex_pos, lex_tokens, lex_status,
    \* son / matn under test
    conv_in, conv_text, conv_out

ivars == <<env_stack, functions, heap, stack, ret, out, status, ev, overflow_checks, requests>>
nvars == <<ip, ip_safe, url, dns, url_safe, net_call, net_sent, net_ret>>
pvars == <<tokens, pos, stmts, perrs, pdone>>
lvars == <<input, lex_pos, lex_tokens, lex_status>>
cvars == <<conv_in, conv_text, conv_out>>
vars == <<ivars, nvars, pvars, lvars, cvars>>

(***************************************************************************)
(* Bounds                                                                  *)
(***************************************************************************)
\* Width of Number in the model; the program's is 64 (i64).
IntBits == 5
\* Cells the heap may hold before the run is cut.
MaxHeap == 6
\* Depth of the Rust call stack before the run is cut.
MaxStack == 14
\* Lines written to stdout, and requests sent, before the run is cut.
MaxOut == 3

MinInt == -(2 ^ (IntBits - 1))
MaxInt == (2 ^ (IntBits - 1)) - 1
\* Two's complement wrap-around of an out-of-range result.
Wrap(n) == ((n - MinInt) % (2 ^ IntBits)) + MinInt
InRange(n) == MinInt <= n /\ n <= MaxInt

(***************************************************************************)
(* Sequence helpers                                                        *)
(***************************************************************************)
RECURSIVE SumSeq(_)
SumSeq(s) ==
    IF s = <<>> THEN 0 ELSE Head(s) + SumSeq(Tail(s))

Last(s) == s[Len(s)]
Front(s) == SubSeq(s, 1, Len(s) - 1)

(***************************************************************************)
(* Value (interpreter.rs:9-15)                                             *)
(***************************************************************************)
NumberV(n) == [t |-> "Number", n |-> n]
StringV(s) == [t |-> "String", s |-> s]
BoolV(b) == [t |-> "Bool", b |-> b]
ArrayV(a) == [t |-> "Array", rc |-> a]
empty_string == StringV(<<>>)

(***************************************************************************)
(* is_safe_ip (interpreter.rs:52-89)                                       *)
(***************************************************************************)
\* The & of two unsigned integers, bit by bit.
RECURSIVE BitAnd(_, _)
BitAnd(a, b) ==
    IF a = 0 \/ b = 0 THEN 0
    ELSE (a % 2) * (b % 2) + 2 * BitAnd(a \div 2, b \div 2)

IpV4(octets) == [v |-> 4, octets |-> octets]
IpV6(segments) == [v |-> 6, segments |-> segments]

\* Variant of is_safe_ip_v4 whose two ranges exclude their upper end.
is_safe_ip_v4_open_range(octets) ==
    /\ octets[1] # 127
    /\ octets[1] # 10
    /\ ~(octets[1] = 172 /\ octets[2] >= 16 /\ octets[2] < 31)
    /\ ~(octets[1] = 192 /\ octets[2] = 168)
    /\ ~(octets[1] = 169 /\ octets[2] = 254)
    /\ octets[1] # 0
    /\ ~(octets[1] = 100 /\ octets[2] >= 64 /\ octets[2] < 127)
    /\ octets # <<255, 255, 255, 255>>

\* The IpAddr::V4 arm: each test returns false, the fall-through is true.
is_safe_ip_v4(octets) ==
    /\ octets[1] # 127
    /\ octets[1] # 10
    /\ ~(octets[1] = 172 /\ octets[2] >= 16 /\ octets[2] <= 31)
    /\ ~(octets[1] = 192 /\ octets[2] = 168)
    /\ ~(octets[1] = 169 /\ octets[2] = 254)
    /\ octets[1] # 0
    /\ ~(octets[1] = 100 /\ octets[2] >= 64 /\ octets[2] <= 127)
    /\ octets # <<255, 255, 255, 255>>

is_loopback(segments) == segments = <<0, 0, 0, 0, 0, 0, 0, 1>>
is_unspecified(segments) == segments = <<0, 0, 0, 0, 0, 0, 0, 0>>

\* Ipv6Addr::to_ipv4: Some(a.b.c.d) for ::a.b.c.d and ::ffff:a.b.c.d, else
\* None (the empty sequence).
to_ipv4(segments) ==
    IF /\ \A i \in 1..5 : segments[i] = 0
       /\ segments[6] \in {0, 65535}
    THEN <<segments[7] \div 256, segments[7] % 256, segments[8] \div 256, segments[8] % 256>>
    ELSE <<>>

\* The IpAddr::V6 arm.
is_safe_ip_v6(segments) ==
    /\ ~is_loopback(segments)
    /\ ~is_unspecified(segments)
    /\ BitAnd(segments[1], 65024) # 64512
    /\ BitAnd(segments[1], 65472) # 65152
    /\ (to_ipv4(segments) # <<>> => is_safe_ip_v4(to_ipv4(segments)))

is_safe_ip(a) ==
    IF a.v = 4 THEN is_safe_ip_v4(a.octets) ELSE is_safe_ip_v6(a.segments)


(***************************************************************************)
(* is_safe_url (interpreter.rs:91-121)                                     *)
(*                                                                         *)
(* A url is what reqwest::Url::parse makes of the string: ok is whether it *)
(* parsed, host is <<>> for None and <<h>> for Some(h), port likewise.     *)
(* A dns is what to_socket_addrs returns for "host:port": ok and the       *)
(* addresses in the order the resolver gives them.                         *)
(***************************************************************************)
s_http == <<"h", "t", "t", "p">>
s_https == <<"h", "t", "t", "p", "s">>
s_ftp == <<"f", "t", "p">>
s_data == <<"d", "a", "t", "a">>
h_localhost == <<"l", "o", "c", "a", "l", "h", "o", "s", "t">>
h_v6loop == <<":", ":", "1">>
h_v6loop_bracket == <<"[", ":", ":", "1", "]">>
h_127_0_0_1 == <<"1", "2", "7", ".", "0", ".", "0", ".", "1">>
h_127_org == <<"1", "2", "7", ".", "o", "r", "g">>
h_1270_org == <<"1", "2", "7", "0", ".", "o", "r", "g">>
h_10_0_0_5 == <<"1", "0", ".", "0", ".", "0", ".", "5">>
h_example == <<"e", "x", ".", "u", "z">>
h_localtest == <<"l", "t", ".", "m", "e">>

starts_with(s, prefix) ==
    /\ Len(s) >= Len(prefix)
    /\ SubSeq(s, 1, Len(prefix)) = prefix

\* Url::port_or_known_default().unwrap_or(80)
port_or_known_default(u) ==
    IF u.port # <<>> THEN u.port[1]
    ELSE IF u.scheme = s_https THEN 443
    ELSE 80

\* Variant of is_safe_url that stops looking after the first resolved address.
is_safe_url_first_only(u, d) ==
    IF ~u.ok THEN FALSE
    ELSE IF u.scheme # s_http /\ u.scheme # s_https THEN FALSE
    ELSE IF u.host = <<>> THEN FALSE
    ELSE IF u.host[1] = h_localhost \/ u.host[1] = h_v6loop \/ u.host[1] = h_v6loop_bracket THEN FALSE
    ELSE IF starts_with(u.host[1], <<"1", "2", "7", ".">>) THEN FALSE
    ELSE IF d.ok /\ d.addrs # <<>> THEN is_safe_ip(d.addrs[1])
    ELSE TRUE

\* d is the resolution of host:port_or_known_default(u).  The for loop
\* returns false at the first unsafe address; after the loop, and when the
\* resolution failed (the if let does not match), line 115 returns true.
is_safe_url(u, d) ==
    IF ~u.ok THEN FALSE
    ELSE IF u.scheme # s_http /\ u.scheme # s_https THEN FALSE
    ELSE IF u.host = <<>> THEN FALSE
    ELSE IF u.host[1] = h_localhost \/ u.host[1] = h_v6loop \/ u.host[1] = h_v6loop_bracket THEN FALSE
    ELSE IF starts_with(u.host[1], <<"1", "2", "7", ".">>) THEN FALSE
    ELSE IF d.ok THEN \A i \in 1..Len(d.addrs) : is_safe_ip(d.addrs[i])
    ELSE TRUE

(***************************************************************************)
(* internet_ol, internet_yoz (interpreter.rs:375-439)                      *)
(*                                                                         *)
(* nargs is arg_values.len(); u and d are the parse and the resolution of  *)
(* arg_values[0].to_string(); http is what the client's send and the read  *)
(* of the response give: <<"ok", body>>, <<"read_err">> or <<"send_err">>. *)
(* The result is the value returned, whether a request was sent, and the   *)
(* message written to stderr.                                              *)
(***************************************************************************)
NetResult(v, sent, err) == [v |-> v, sent |-> sent, err |-> err]

http_request(u, d, http) ==
    IF ~is_safe_url(u, d) THEN NetResult(empty_string, FALSE, "unsafe_url")
    ELSE IF http[1] = "ok" THEN NetResult(StringV(http[2]), TRUE, "")
    ELSE NetResult(empty_string, TRUE, http[1])

internet_ol(nargs, u, d, http) ==
    IF nargs >= 1 THEN http_request(u, d, http)
    ELSE NetResult(empty_string, FALSE, "")

internet_yoz(nargs, u, d, http) ==
    IF nargs >= 2 THEN http_request(u, d, http)
    ELSE NetResult(empty_string, FALSE, "")


(***************************************************************************)
(* Token (lexer.rs:1-27).  Identifier, StringLiteral and Operator carry    *)
(* their text as a sequence of characters, Number its value.               *)
(***************************************************************************)
Tok(k) == [k |-> k]
TIdentifier(name) == [k |-> "Identifier", name |-> name]
TNumber(n) == [k |-> "Number", n |-> n]
TStringLiteral(str) == [k |-> "StringLiteral", s |-> str]
TOperator(op) == [k |-> "Operator", op |-> op]
EOF == Tok("EOF")

op_assign == <<"=">>
op_eq == <<"=", "=">>
op_ne == <<"!", "=">>
op_lt == <<"<">>
op_gt == <<">">>
op_le == <<"<", "=">>
op_ge == <<">", "=">>
op_plus == <<"+">>
op_minus == <<"-">>
op_star == <<"*">>
op_slash == <<"/">>
op_and == <<"&", "&">>
op_or == <<"|", "|">>
op_not == <<"!">>

(***************************************************************************)
(* Expr and Stmt (parser.rs:3-27)                                          *)
(***************************************************************************)
ENumber(n) == [e |-> "Number", n |-> n]
EStringLiteral(str) == [e |-> "StringLiteral", s |-> str]
EIdentifier(name) == [e |-> "Identifier", name |-> name]
EBinaryOp(left, op, right) == [e |-> "BinaryOp", left |-> left, op |-> op, right |-> right]
EUnaryOp(op, right) == [e |-> "UnaryOp", op |-> op, right |-> right]
ECall(name, args) == [e |-> "Call", name |-> name, args |-> args]
EInput == [e |-> "Input"]
EArray(elements) == [e |-> "Array", elements |-> elements]
EIndex(target, index) == [e |-> "Index", target |-> target, index |-> index]

SPrint(expr) == [s |-> "Print", expr |-> expr]
SIf(cond, body) == [s |-> "If", cond |-> cond, body |-> body]
SLoop(cond, body) == [s |-> "Loop", cond |-> cond, body |-> body]
SFor(var_name, collection, body) == [s |-> "For", var_name |-> var_name, collection |-> collection, body |-> body]
SAssign(name, expr) == [s |-> "Assign", name |-> name, expr |-> expr]
SAssignIndex(name, index, value) == [s |-> "AssignIndex", name |-> name, index |-> index, value |-> value]
SFunction(name, params, body) == [s |-> "Function", name |-> name, params |-> params, body |-> body]
SReturn(expr) == [s |-> "Return", expr |-> expr]
SExpr(expr) == [s |-> "Expr", expr |-> expr]

(***************************************************************************)
(* Parser (parser.rs:34-388).  A production takes the tokens, the cursor   *)
(* and the number of messages written to stderr so far; it returns Some    *)
(* (ok, with the node) or None, with the cursor and the messages after it. *)
(***************************************************************************)
Some(node, p, e) == [ok |-> TRUE, node |-> node, pos |-> p, errs |-> e]
None(p, e) == [ok |-> FALSE, pos |-> p, errs |-> e]

peek(toks, p) == IF p < Len(toks) THEN toks[p + 1] ELSE EOF

\* The cursor after advance().
advance(toks, p) == IF p < Len(toks) THEN p + 1 ELSE p

\* The token advance() returns.
advanced(toks, p) ==
    IF advance(toks, p) > 0 THEN toks[advance(toks, p)] ELSE EOF

comparison_ops == {op_eq, op_ne, op_lt, op_gt, op_le, op_ge}
term_ops == {op_plus, op_minus}
factor_ops == {op_star, op_slash}

RECURSIVE production(_, _, _, _, _)


parse_logical_or(toks, p, e) ==
    LET l == production("parse_logical_and", toks, p, e, <<>>)
    IN  IF l.ok THEN production("parse_logical_or_loop", toks, l.pos, l.errs, l.node) ELSE l

parse_expr(toks, p, e) == parse_logical_or(toks, p, e)

parse_block(toks, p, e) ==
    IF peek(toks, p).k = "LBrace"
    THEN production("parse_block_loop", toks, advance(toks, p), e, <<>>)
    ELSE None(p, e + 1)

\* The while loop of parse_block and what follows it.
parse_block_loop(toks, p, e, acc) ==
    IF peek(toks, p).k \notin {"RBrace", "EOF"}
    THEN LET r == production("parse_stmt", toks, p, e, <<>>)
         IN  IF r.ok
             THEN production("parse_block_loop", toks, r.pos, r.errs, Append(acc, r.node))
             ELSE production("parse_block_loop", toks, advance(toks, r.pos), r.errs, acc)
    ELSE IF peek(toks, p).k = "RBrace"
    THEN Some(acc, advance(toks, p), e)
    ELSE None(p, e + 1)

\* condition = parse_expr()?; body = parse_block()?; of the Agar and
\* Takrorla arms.
parse_cond_block(toks, p, e, kind) ==
    LET c == parse_expr(toks, p, e)
    IN  IF ~c.ok THEN c
        ELSE LET b == parse_block(toks, c.pos, c.errs)
             IN  IF ~b.ok THEN b
                 ELSE Some([s |-> kind, cond |-> c.node, body |-> b.node], b.pos, b.errs)

\* The Uchun arm, after uchun is consumed.
parse_for(toks, p, e) ==
    LET var == advanced(toks, p)
        p2 == advance(toks, p)
    IN  IF var.k = "Identifier" /\ peek(toks, p2).k = "Ichida"
        THEN LET c == parse_expr(toks, advance(toks, p2), e)
             IN  IF ~c.ok THEN c
                 ELSE LET b == parse_block(toks, c.pos, c.errs)
                      IN  IF ~b.ok THEN b
                          ELSE Some(SFor(var.name, c.node, b.node), b.pos, b.errs)
        ELSE None(p2, e + 1)

\* The parameter loop of the Funksiya arm: ok with the parameters, or not
\* ok when a token that is no identifier was consumed.
parse_params(toks, p, e, acc) ==
    LET t == advanced(toks, p)
        p2 == advance(toks, p)
    IN  IF t.k # "Identifier" THEN None(p2, e + 1)
        ELSE IF peek(toks, p2).k = "Comma"
        THEN production("parse_params", toks, advance(toks, p2), e, Append(acc, t.name))
        ELSE Some(Append(acc, t.name), p2, e)

\* The Funksiya arm, after funksiya is consumed.
parse_function(toks, p, e) ==
    LET name == advanced(toks, p)
        p2 == advance(toks, p)
    IN  IF name.k # "Identifier" THEN None(p2, e + 1)
        ELSE IF advanced(toks, p2).k # "LParen" THEN None(advance(toks, p2), e + 1)
        ELSE LET p3 == advance(toks, p2)
                 ps == IF peek(toks, p3).k # "RParen"
                       THEN production("parse_params", toks, p3, e, <<>>)
                       ELSE Some(<<>>, p3, e)
             IN  IF ~ps.ok THEN ps
                 ELSE IF advanced(toks, ps.pos).k # "RParen"
                 THEN None(advance(toks, ps.pos), ps.errs + 1)
                 ELSE LET b == parse_block(toks, advance(toks, ps.pos), ps.errs)
                      IN  IF ~b.ok THEN b
                          ELSE Some(SFunction(name.name, ps.node, b.node), b.pos, b.errs)

\* The default arm: an expression statement or an assignment.
parse_expr_stmt(toks, p, e) ==
    LET x == parse_expr(toks, p, e)
    IN  IF ~x.ok THEN x
        ELSE IF peek(toks, x.pos).k = "Operator" /\ peek(toks, x.pos).op = op_assign
        THEN LET v == parse_expr(toks, advance(toks, x.pos), x.errs)
             IN  IF ~v.ok THEN v
                 ELSE IF x.node.e = "Identifier"
                 THEN Some(SAssign(x.node.name, v.node), v.pos, v.errs)
                 ELSE IF x.node.e = "Index"
                 THEN IF x.node.target.e = "Identifier"
                      THEN Some(SAssignIndex(x.node.target.name, x.node.index, v.node), v.pos, v.errs)
                      ELSE None(v.pos, v.errs + 1)
                 ELSE None(v.pos, v.errs + 1)
        ELSE Some(SExpr(x.node), x.pos, x.errs)

\* expr = parse_expr()?; Some(wrap(expr)) of the Yoz and Qaytar arms.
parse_keyword_expr(toks, p, e, kind) ==
    LET x == parse_expr(toks, p, e)
    IN  IF ~x.ok THEN x ELSE Some([s |-> kind, expr |-> x.node], x.pos, x.errs)

\* The arms of parse_stmt's match; Token::Toki has no arm of its own.
parse_stmt(toks, p, e) ==
    LET k == peek(toks, p).k
    IN  IF k = "Yoz" THEN parse_keyword_expr(toks, advance(toks, p), e, "Print")
        ELSE IF k = "Agar" THEN parse_cond_block(toks, advance(toks, p), e, "If")
        ELSE IF k = "Takrorla" THEN parse_cond_block(toks, advance(toks, p), e, "Loop")
        ELSE IF k = "Uchun" THEN parse_for(toks, advance(toks, p), e)
        ELSE IF k = "Funksiya" THEN parse_function(toks, advance(toks, p), e)
        ELSE IF k = "Qaytar" THEN parse_keyword_expr(toks, advance(toks, p), e, "Return")
        ELSE parse_expr_stmt(toks, p, e)


parse_logical_or_loop(toks, left, p, e) ==
    IF peek(toks, p).k = "Or"
    THEN LET r == production("parse_logical_and", toks, advance(toks, p), e, <<>>)
         IN  IF ~r.ok THEN r
             ELSE production("parse_logical_or_loop", toks, r.pos, r.errs, EBinaryOp(left, op_or, r.node))
    ELSE Some(left, p, e)

parse_logical_and(toks, p, e) ==
    LET l == production("parse_comparison", toks, p, e, <<>>)
    IN  IF l.ok THEN production("parse_logical_and_loop", toks, l.pos, l.errs, l.node) ELSE l

parse_logical_and_loop(toks, left, p, e) ==
    IF peek(toks, p).k = "And"
    THEN LET r == production("parse_comparison", toks, advance(toks, p), e, <<>>)
         IN  IF ~r.ok THEN r
             ELSE production("parse_logical_and_loop", toks, r.pos, r.errs, EBinaryOp(left, op_and, r.node))
    ELSE Some(left, p, e)

parse_comparison(toks, p, e) ==
    LET l == production("parse_term", toks, p, e, <<>>)
    IN  IF l.ok THEN production("parse_comparison_loop", toks, l.pos, l.errs, l.node) ELSE l

parse_comparison_loop(toks, left, p, e) ==
    IF peek(toks, p).k = "Operator" /\ peek(toks, p).op \in comparison_ops
    THEN LET r == production("parse_term", toks, advance(toks, p), e, <<>>)
         IN  IF ~r.ok THEN r
             ELSE production("parse_comparison_loop", toks, r.pos, r.errs, EBinaryOp(left, peek(toks, p).op, r.node))
    ELSE Some(left, p, e)

parse_term(toks, p, e) ==
    LET l == production("parse_factor", toks, p, e, <<>>)
    IN  IF l.ok THEN production("parse_term_loop", toks, l.pos, l.errs, l.node) ELSE l

\* Variant of parse_term_loop that parses the right operand with parse_term,
\* which groups + and - to the right.
parse_term_loop_right(toks, left, p, e) ==
    IF peek(toks, p).k = "Operator" /\ peek(toks, p).op \in term_ops
    THEN LET r == production("parse_term", toks, advance(toks, p), e, <<>>)
         IN  IF ~r.ok THEN r
             ELSE Some(EBinaryOp(left, peek(toks, p).op, r.node), r.pos, r.errs)
    ELSE Some(left, p, e)

parse_term_loop(toks, left, p, e) ==
    IF peek(toks, p).k = "Operator" /\ peek(toks, p).op \in term_ops
    THEN LET r == production("parse_factor", toks, advance(toks, p), e, <<>>)
         IN  IF ~r.ok THEN r
             ELSE production("parse_term_loop", toks, r.pos, r.errs, EBinaryOp(left, peek(toks, p).op, r.node))
    ELSE Some(left, p, e)

parse_factor(toks, p, e) ==
    LET l == production("parse_unary", toks, p, e, <<>>)
    IN  IF l.ok THEN production("parse_factor_loop", toks, l.pos, l.errs, l.node) ELSE l

parse_factor_loop(toks, left, p, e) ==
    IF peek(toks, p).k = "Operator" /\ peek(toks, p).op \in factor_ops
    THEN LET r == production("parse_unary", toks, advance(toks, p), e, <<>>)
         IN  IF ~r.ok THEN r
             ELSE production("parse_factor_loop", toks, r.pos, r.errs, EBinaryOp(left, peek(toks, p).op, r.node))
    ELSE Some(left, p, e)

parse_postfix(toks, p, e) ==
    LET l == production("parse_primary", toks, p, e, <<>>)
    IN  IF l.ok THEN production("parse_postfix_loop", toks, l.pos, l.errs, l.node) ELSE l

parse_unary(toks, p, e) ==
    IF peek(toks, p).k = "Not"
    THEN LET r == production("parse_unary", toks, advance(toks, p), e, <<>>)
         IN  IF ~r.ok THEN r ELSE Some(EUnaryOp(op_not, r.node), r.pos, r.errs)
    ELSE parse_postfix(toks, p, e)

\* The argument loop of a call: it ends, without a message of its own, at
\* the first argument that does not parse or is not followed by a comma.
parse_args(toks, p, e, acc) ==
    LET a == parse_expr(toks, p, e)
    IN  IF ~a.ok THEN Some(acc, a.pos, a.errs)
        ELSE IF peek(toks, a.pos).k = "Comma"
        THEN production("parse_args", toks, advance(toks, a.pos), a.errs, Append(acc, a.node))
        ELSE Some(Append(acc, a.node), a.pos, a.errs)

parse_postfix_loop(toks, left, p, e) ==
    IF peek(toks, p).k = "LBracket"
    THEN LET i == parse_expr(toks, advance(toks, p), e)
         IN  IF ~i.ok THEN i
             ELSE IF advanced(toks, i.pos).k = "RBracket"
             THEN production("parse_postfix_loop", toks, advance(toks, i.pos), i.errs, EIndex(left, i.node))
             ELSE None(advance(toks, i.pos), i.errs + 1)
    ELSE IF peek(toks, p).k = "LParen"
    THEN IF left.e = "Identifier"
         THEN LET p2 == advance(toks, p)
                  as == IF peek(toks, p2).k # "RParen"
                        THEN production("parse_args", toks, p2, e, <<>>)
                        ELSE Some(<<>>, p2, e)
              IN  IF advanced(toks, as.pos).k = "RParen"
                  THEN production("parse_postfix_loop", toks, advance(toks, as.pos), as.errs, ECall(left.name, as.node))
                  ELSE None(advance(toks, as.pos), as.errs + 1)
         ELSE None(p, e + 1)
    ELSE Some(left, p, e)

\* The element loop of an array literal.
parse_elements(toks, p, e, acc) ==
    LET x == parse_expr(toks, p, e)
    IN  IF ~x.ok THEN x
        ELSE IF peek(toks, x.pos).k = "Comma"
        THEN production("parse_elements", toks, advance(toks, x.pos), x.errs, Append(acc, x.node))
        ELSE Some(Append(acc, x.node), x.pos, x.errs)

parse_primary(toks, p, e) ==
    LET t == peek(toks, p)
    IN  IF t.k = "Number" THEN Some(ENumber(t.n), advance(toks, p), e)
        ELSE IF t.k = "StringLiteral" THEN Some(EStringLiteral(t.s), advance(toks, p), e)
        ELSE IF t.k = "Identifier" THEN Some(EIdentifier(t.name), advance(toks, p), e)
        ELSE IF t.k = "Sora" THEN Some(EInput, advance(toks, p), e)
        ELSE IF t.k = "LBracket"
        THEN LET p2 == advance(toks, p)
                 xs == IF peek(toks, p2).k # "RBracket"
                       THEN production("parse_elements", toks, p2, e, <<>>)
                       ELSE Some(<<>>, p2, e)
             IN  IF ~xs.ok THEN xs
                 ELSE IF advanced(toks, xs.pos).k = "RBracket"
                 THEN Some(EArray(xs.node), advance(toks, xs.pos), xs.errs)
                 ELSE None(advance(toks, xs.pos), xs.errs + 1)
        ELSE IF t.k = "LParen"
        THEN LET x == parse_expr(toks, advance(toks, p), e)
             IN  IF ~x.ok THEN x
                 ELSE IF advanced(toks, x.pos).k = "RParen"
                 THEN Some(x.node, advance(toks, x.pos), x.errs)
                 ELSE None(advance(toks, x.pos), x.errs + 1)
        ELSE None(p, e)

\* The call of a production that takes part in the grammar's recursion; x is
\* its left operand or the list it has collected, where it takes one.
production(name, toks, p, e, x) ==
    CASE name = "parse_block_loop" -> parse_block_loop(toks, p, e, x)
      [] name = "parse_stmt" -> parse_stmt(toks, p, e)
      [] name = "parse_params" -> parse_params(toks, p, e, x)
      [] name = "parse_logical_or_loop" -> parse_logical_or_loop(toks, x, p, e)
      [] name = "parse_logical_and" -> parse_logical_and(toks, p, e)
      [] name = "parse_logical_and_loop" -> parse_logical_and_loop(toks, x, p, e)
      [] name = "parse_comparison" -> parse_comparison(toks, p, e)
      [] name = "parse_comparison_loop" -> parse_comparison_loop(toks, x, p, e)
      [] name = "parse_term" -> parse_term(toks, p, e)
      [] name = "parse_term_loop" -> parse_term_loop(toks, x, p, e)
      [] name = "parse_factor" -> parse_factor(toks, p, e)
      [] name = "parse_factor_loop" -> parse_factor_loop(toks, x, p, e)
      [] name = "parse_unary" -> parse_unary(toks, p, e)
      [] name = "parse_postfix_loop" -> parse_postfix_loop(toks, x, p, e)
      [] name = "parse_args" -> parse_args(toks, p, e, x)
      [] name = "parse_primary" -> parse_primary(toks, p, e)
      [] name = "parse_elements" -> parse_elements(toks, p, e, x)

\* One iteration of the while loop of Parser::parse on (pos, stmts, errs).
\* An iteration that reports a failed parse_stmt and skips nothing.
parse_iteration_no_skip(toks, p, acc, e) ==
    LET r == production("parse_stmt", toks, p, e, <<>>)
    IN  IF r.ok
        THEN [pos |-> r.pos, stmts |-> Append(acc, r.node), errs |-> r.errs]
        ELSE [pos |-> r.pos, stmts |-> acc, errs |-> r.errs + 1]

parse_iteration(toks, p, acc, e) ==
    LET r == production("parse_stmt", toks, p, e, <<>>)
    IN  IF r.ok
        THEN [pos |-> r.pos, stmts |-> Append(acc, r.node), errs |-> r.errs]
        ELSE [pos |-> advance(toks, r.pos), stmts |-> acc, errs |-> r.errs + 1]

\* Parser::parse from cursor p: the statements and the messages.
RECURSIVE parse_from(_, _, _, _)
parse_from(toks, p, acc, e) ==
    IF peek(toks, p) = EOF THEN [pos |-> p, stmts |-> acc, errs |-> e]
    ELSE LET n == parse_iteration(toks, p, acc, e)
         IN  parse_from(toks, n.pos, n.stmts, n.errs)

parse(toks) == parse_from(toks, 0, <<>>, 0)

(***************************************************************************)
(* Display for Value (interpreter.rs:23-41); h is the heap.                *)
(***************************************************************************)
digit_chars == <<"0", "1", "2", "3", "4", "5", "6", "7", "8", "9">>

RECURSIVE NatDigits(_)
NatDigits(n) ==
    IF n < 10 THEN <<digit_chars[n + 1]>>
    ELSE NatDigits(n \div 10) \o <<digit_chars[(n % 10) + 1]>>

\* write!(f, "{}", n) for an integer.
DisplayNumber(n) == IF n < 0 THEN <<"-">> \o NatDigits(-n) ELSE NatDigits(n)

RECURSIVE Display(_, _)
RECURSIVE DisplayElements(_, _, _)
DisplayElements(arr, i, h) ==
    IF i > Len(arr) THEN <<>>
    ELSE (IF i > 1 THEN <<",", " ">> ELSE <<>>) \o Display(arr[i], h) \o DisplayElements(arr, i + 1, h)

Display(v, h) ==
    IF v.t = "Number" THEN DisplayNumber(v.n)
    ELSE IF v.t = "String" THEN v.s
    ELSE IF v.t = "Bool" THEN (IF v.b THEN <<"t", "r", "u", "e">> ELSE <<"f", "a", "l", "s", "e">>)
    ELSE <<"[">> \o DisplayElements(h[v.rc], 1, h) \o <<"]">>

(***************************************************************************)
(* is_truthy and evaluate_binary (interpreter.rs:500-539)                  *)
(***************************************************************************)
is_truthy(val) ==
    IF val.t = "Bool" THEN val.b
    ELSE IF val.t = "Number" THEN val.n # 0
    ELSE FALSE

\* The outcome of an evaluation: a value, or a panic of the process.
Val(v) == [panic |-> FALSE, v |-> v]
Panic == [panic |-> TRUE]

\* l + r, l - r, l * r on i64, given the exact result n: a build with
\* overflow checks panics when n is out of range, one without wraps.
Arith(n, checks) ==
    IF InRange(n) THEN Val(NumberV(n))
    ELSE IF checks THEN Panic
    ELSE Val(NumberV(Wrap(n)))

Abs(n) == IF n < 0 THEN -n ELSE n

\* l / r on i64: a panic for r = 0 and for MIN / -1 in every build, else
\* the quotient truncated toward zero.
Divide(l, r) ==
    IF r = 0 THEN Panic
    ELSE IF l = MinInt /\ r = -1 THEN Panic
    ELSE IF (l < 0) # (r < 0) THEN Val(NumberV(-(Abs(l) \div Abs(r))))
    ELSE Val(NumberV(Abs(l) \div Abs(r)))

evaluate_binary(left, op, right, h, checks) ==
    IF left.t = "Number" /\ right.t = "Number"
    THEN IF op = op_plus THEN Arith(left.n + right.n, checks)
         ELSE IF op = op_minus THEN Arith(left.n - right.n, checks)
         ELSE IF op = op_star THEN Arith(left.n * right.n, checks)
         ELSE IF op = op_slash THEN Divide(left.n, right.n)
         ELSE IF op = op_eq THEN Val(BoolV(left.n = right.n))
         ELSE IF op = op_ne THEN Val(BoolV(left.n # right.n))
         ELSE IF op = op_gt THEN Val(BoolV(left.n > right.n))
         ELSE IF op = op_lt THEN Val(BoolV(left.n < right.n))
         ELSE IF op = op_ge THEN Val(BoolV(left.n >= right.n))
         ELSE IF op = op_le THEN Val(BoolV(left.n <= right.n))
         ELSE Val(BoolV(FALSE))
    ELSE IF left.t = "String" /\ right.t = "String"
    THEN IF op = op_plus THEN Val(StringV(left.s \o right.s))
         ELSE IF op = op_eq THEN Val(BoolV(left.s = right.s))
         ELSE IF op = op_ne THEN Val(BoolV(left.s # right.s))
         ELSE Val(BoolV(FALSE))
    ELSE IF (left.t = "String" /\ right.t = "Number") \/ (left.t = "Number" /\ right.t = "String")
    THEN IF op = op_plus THEN Val(StringV(Display(left, h) \o Display(right, h)))
         ELSE Val(BoolV(FALSE))
    ELSE Val(BoolV(FALSE))

\* Interpreter::evaluate on an expression made of Number and BinaryOp with
\* an operator other than && and ||: left, then right, then evaluate_binary.
RECURSIVE evaluate_arith(_, _)
evaluate_arith(expr, checks) ==
    IF expr.e = "Number" THEN Val(NumberV(expr.n))
    ELSE LET l == evaluate_arith(expr.left, checks)
         IN  IF l.panic THEN l
             ELSE LET r == evaluate_arith(expr.right, checks)
                  IN  IF r.panic THEN r
                      ELSE evaluate_binary(l.v, expr.op, r.v, <<>>, checks)

(***************************************************************************)
(* Specification SpecIp: is_safe_ip applied to an address.                 *)
(***************************************************************************)
\* Values of the two octets is_safe_ip reads, around every range's ends.
Octet0Samples == {0, 1, 9, 10, 11, 99, 100, 101, 126, 127, 128, 168, 169, 170, 171, 172, 173, 191, 192, 193, 254, 255}
Octet1Samples == {0, 15, 16, 17, 30, 31, 32, 63, 64, 65, 126, 127, 128, 167, 168, 169, 253, 254, 255}
OctetTailSamples == {<<0, 0>>, <<0, 1>>, <<255, 255>>}
V4Inputs == {<<a, b>> \o t : a \in Octet0Samples, b \in Octet1Samples, t \in OctetTailSamples}

\* First segments around fc00::/7 and fe80::/10, and the segments between.
Seg0Samples == {0, 1, 8193, 64511, 64512, 64513, 65023, 65024, 65151, 65152, 65153, 65215, 65216, 65535}
SegMidSamples == {<<0, 0, 0, 0>>, <<0, 0, 0, 1>>, <<3512, 0, 0, 0>>}
Seg5Samples == {0, 1, 65535}
V6TailSamples == {<<0, 0>>, <<0, 1>>, <<1, 0>>, <<65535, 65535>>} \cup {<<256 * a + b, 1>> : a \in Octet0Samples, b \in {0, 16, 31, 32, 64, 127, 168, 254}}
V6Inputs == {<<a>> \o m \o <<f>> \o t : a \in Seg0Samples, m \in SegMidSamples, f \in Seg5Samples, t \in V6TailSamples}

IpInputs == {IpV4(o) : o \in V4Inputs} \cup {IpV6(g) : g \in V6Inputs}

IdleIp == ip = IpV4(<<0, 0, 0, 0>>) /\ ip_safe = <<>>
IdleUrl == url = [ok |-> FALSE] /\ dns = [ok |-> FALSE, addrs |-> <<>>] /\ url_safe = <<>> /\ net_call = "none" /\ net_sent = FALSE /\ net_ret = <<>>
IdleParser == tokens = <<>> /\ pos = 0 /\ stmts = <<>> /\ perrs = 0 /\ pdone = TRUE
IdleLexer == input = <<>> /\ lex_pos = 0 /\ lex_tokens = <<>> /\ lex_status = "idle"
IdleConv == conv_in = <<>> /\ conv_text = <<>> /\ conv_out = <<>>
IdleInterp == env_stack = <<>> /\ functions = <<>> /\ heap = <<>> /\ stack = <<>> /\ ret = <<>> /\ out = <<>> /\ status = "idle" /\ ev = "" /\ overflow_checks = FALSE /\ requests = 0

InitIp == ip \in IpInputs /\ ip_safe = <<>> /\ IdleUrl /\ IdleParser /\ IdleInterp /\ IdleLexer /\ IdleConv

CheckIp ==
    /\ ip_safe = <<>>
    /\ ip_safe' = <<is_safe_ip(ip)>>
    /\ UNCHANGED <<ip, url, dns, url_safe, net_call, net_sent, net_ret, ivars, pvars, lvars, cvars>>

NextIp == CheckIp
SpecIp == InitIp /\ [][NextIp]_vars

(***************************************************************************)
(* Specification SpecUrl: is_safe_url, internet_ol and internet_yoz        *)
(* applied to a URL and the answers of the resolver and of the server.     *)
(***************************************************************************)
\* Addresses a resolver may answer with.
MaxAddrs == 3
ip_8_8_8_8 == IpV4(<<8, 8, 8, 8>>)
ip_10_0_0_5 == IpV4(<<10, 0, 0, 5>>)
ip_127_0_0_1 == IpV4(<<127, 0, 0, 1>>)
ip_v6_doc == IpV6(<<8193, 3512, 0, 0, 0, 0, 0, 1>>)
ip_v6_loop == IpV6(<<0, 0, 0, 0, 0, 0, 0, 1>>)
ip_v6_mapped_private == IpV6(<<0, 0, 0, 0, 0, 65535, 49320, 1>>)
AddrPool == {ip_8_8_8_8, ip_10_0_0_5, ip_v6_doc, ip_v6_mapped_private}

RECURSIVE SeqsUpTo(_, _)
SeqsUpTo(S, n) ==
    IF n = 0 THEN {<<>>}
    ELSE LET shorter == SeqsUpTo(S, n - 1)
         IN  shorter \cup {Append(q, x) : q \in shorter, x \in S}

DnsErr == [ok |-> FALSE, addrs |-> <<>>]
DnsOk(addrs) == [ok |-> TRUE, addrs |-> addrs]
Url(scheme, host, port) == [ok |-> TRUE, scheme |-> scheme, host |-> host, port |-> port]
UrlErr == [ok |-> FALSE]

\* Hosts that are names: the resolver decides.
NameHosts == {h_localhost, h_127_org, h_1270_org, h_example, h_localtest}
\* Hosts that are address literals: to_socket_addrs parses them itself.
LiteralHosts == {h_127_0_0_1, h_10_0_0_5, h_v6loop_bracket}
LiteralIp(h) ==
    IF h = h_127_0_0_1 THEN ip_127_0_0_1
    ELSE IF h = h_10_0_0_5 THEN ip_10_0_0_5
    ELSE ip_v6_loop

UrlDnsInputs ==
    {<<UrlErr, DnsErr>>, <<Url(s_data, <<>>, <<>>), DnsErr>>}
    \cup {<<Url(s, <<h>>, p), d>> : s \in {s_http, s_https, s_ftp}, h \in NameHosts, p \in {<<>>, <<8080>>}, d \in {DnsErr} \cup {DnsOk(a) : a \in SeqsUpTo(AddrPool, MaxAddrs)}}
    \cup {<<Url(s, <<h>>, <<>>), DnsOk(<<LiteralIp(h)>>)>> : s \in {s_http, s_https, s_ftp}, h \in LiteralHosts}

HttpOutcomes == {<<"ok", <<"o", "k">>>>, <<"read_err">>, <<"send_err">>}

InitUrl ==
    /\ \E ud \in UrlDnsInputs : url = ud[1] /\ dns = ud[2]
    /\ url_safe = <<>> /\ net_call = "none" /\ net_sent = FALSE /\ net_ret = <<>>
    /\ IdleIp /\ IdleParser /\ IdleInterp /\ IdleLexer /\ IdleConv

CheckUrl ==
    /\ url_safe = <<>>
    /\ url_safe' = <<is_safe_url(url, dns)>>
    /\ UNCHANGED <<ip, ip_safe, url, dns, net_call, net_sent, net_ret, ivars, pvars, lvars, cvars>>

CallInternetOl ==
    /\ net_call = "none"
    /\ \E nargs \in 0..2, http \in HttpOutcomes :
         LET r == internet_ol(nargs, url, dns, http)
         IN  /\ net_call' = IF nargs >= 1 THEN "internet_ol" ELSE "internet_ol_noargs"
             /\ net_sent' = r.sent
             /\ net_ret' = <<r.v>>
    /\ UNCHANGED <<ip, ip_safe, url, dns, url_safe, ivars, pvars, lvars, cvars>>

CallInternetYoz ==
    /\ net_call = "none"
    /\ \E nargs \in 0..3, http \in HttpOutcomes :
         LET r == internet_yoz(nargs, url, dns, http)
         IN  /\ net_call' = IF nargs >= 2 THEN "internet_yoz" ELSE "internet_yoz_noargs"
             /\ net_sent' = r.sent
             /\ net_ret' = <<r.v>>
    /\ UNCHANGED <<ip, ip_safe, url, dns, url_safe, ivars, pvars, lvars, cvars>>

NextUrl == CheckUrl \/ CallInternetOl \/ CallInternetYoz
SpecUrl == InitUrl /\ [][NextUrl]_vars


(***************************************************************************)
(* Specification SpecParse: Parser::parse on a token sequence, one         *)
(* iteration of its while loop at a time.                                  *)
(***************************************************************************)
\* Operators in an arithmetic input.
MaxOperators == 3
ArithNumbers == {0, 2, 3}
ArithOps == {op_plus, op_minus, op_star, op_slash}

\* n0 o1 n1 ... ok nk for the numbers ns and the operators os.
ArithSeq(k, ns, os) ==
    [i \in 1..(2 * k + 1) |-> IF i % 2 = 1 THEN TNumber(ns[(i + 1) \div 2]) ELSE TOperator(os[i \div 2])]

ArithExamples ==
    { <<TNumber(1), TOperator(op_plus), TNumber(2), TOperator(op_star), TNumber(3)>>,
      <<TNumber(10), TOperator(op_minus), TNumber(3), TOperator(op_minus), TNumber(2)>> }

t_x == TIdentifier(<<"x">>)
CondPool ==
    { <<t_x>>, <<TNumber(1)>>, <<t_x, TOperator(op_lt), TNumber(3)>>, <<Tok("Not"), t_x>>,
      <<Tok("LParen"), t_x, Tok("RParen")>> }
BodyPool ==
    { <<>>, <<Tok("Yoz"), TNumber(1)>>, <<t_x, TOperator(op_assign), t_x, TOperator(op_plus), TNumber(1)>>,
      <<Tok("Qaytar"), t_x>>, <<Tok("Takrorla"), t_x, Tok("LBrace"), Tok("RBrace")>>,
      <<Tok("Toki"), t_x, Tok("LBrace"), Tok("RBrace")>> }
TailPool == {<<>>, <<Tok("Yoz"), TNumber(2)>>}
LoopInputs ==
    {<<kw>> \o c \o <<Tok("LBrace")>> \o b \o <<Tok("RBrace")>> \o t :
        kw \in {Tok("Takrorla"), Tok("Toki"), Tok("Agar")}, c \in CondPool, b \in BodyPool, t \in TailPool}

\* Every sequence of up to MaxTokens tokens that open or continue a
\* statement, a block or an expression.
MaxTokens == 3
TokenPool ==
    { Tok("Yoz"), Tok("Agar"), Tok("Toki"), Tok("Uchun"), Tok("Funksiya"), Tok("LBrace"), Tok("RBrace"),
      Tok("LParen"), Tok("RParen"), Tok("LBracket"), t_x, TNumber(1), TOperator(op_assign),
      TOperator(op_minus) }

InitParse ==
    /\ \/ \E k \in 0..MaxOperators : \E ns \in [1..(k + 1) -> ArithNumbers], os \in [1..k -> ArithOps] :
             tokens = ArithSeq(k, ns, os) \o <<EOF>>
       \/ \E q \in ArithExamples : tokens = q \o <<EOF>>
       \/ \E q \in LoopInputs : tokens = q \o <<EOF>>
    /\ pos = 0 /\ stmts = <<>> /\ perrs = 0 /\ pdone = FALSE
    /\ IdleIp /\ IdleUrl /\ IdleInterp /\ IdleLexer /\ IdleConv

\* Parser::new on the sample statements and on every short token sequence.
\* A conditional whose block holds a token that starts no statement:
\* agar x { ) }, agar x { toki }, agar x { yoz ) } and agar x { x = }.
BlockInputs ==
    { <<Tok("Agar"), t_x, Tok("LBrace")>> \o b \o <<Tok("RBrace")>> :
        b \in { <<Tok("RParen")>>, <<Tok("Toki")>>, <<Tok("Yoz"), Tok("RParen")>>,
                <<t_x, TOperator(op_assign)>> } }

InitProgress ==
    /\ \/ \E q \in ArithExamples \cup LoopInputs \cup BlockInputs : tokens = q \o <<EOF>>
       \/ \E n \in 0..MaxTokens : \E q \in [1..n -> TokenPool] : tokens = [i \in 1..n |-> q[i]] \o <<EOF>>
    /\ pos = 0 /\ stmts = <<>> /\ perrs = 0 /\ pdone = FALSE
    /\ IdleIp /\ IdleUrl /\ IdleInterp /\ IdleLexer /\ IdleConv

\* An iteration in which parse_stmt returns a statement.
ParseStmt ==
    /\ ~pdone
    /\ peek(tokens, pos) # EOF
    /\ production("parse_stmt", tokens, pos, perrs, <<>>).ok
    /\ LET n == parse_iteration(tokens, pos, stmts, perrs)
       IN  pos' = n.pos /\ stmts' = n.stmts /\ perrs' = n.errs
    /\ UNCHANGED <<tokens, pdone, ivars, nvars, lvars, cvars>>

\* An iteration in which parse_stmt returns None: one token is skipped.
ParseSkip ==
    /\ ~pdone
    /\ peek(tokens, pos) # EOF
    /\ ~production("parse_stmt", tokens, pos, perrs, <<>>).ok
    /\ LET n == parse_iteration(tokens, pos, stmts, perrs)
       IN  pos' = n.pos /\ stmts' = n.stmts /\ perrs' = n.errs
    /\ UNCHANGED <<tokens, pdone, ivars, nvars, lvars, cvars>>

\* The loop ends at EOF and parse returns stmts.
ParseEnd ==
    /\ ~pdone
    /\ peek(tokens, pos) = EOF
    /\ pdone' = TRUE
    /\ UNCHANGED <<tokens, pos, stmts, perrs, ivars, nvars, lvars, cvars>>

NextParse == ParseStmt \/ ParseSkip \/ ParseEnd
SpecParse == InitParse /\ [][NextParse]_vars
\* parse is one sequential loop that runs on once called: at EOF it
\* returns, and until it has returned its iterations keep coming (weak
\* fairness of the iterations, with their enabling condition, that parse has
\* not returned, written out).
SpecParseLive ==
    /\ InitProgress
    /\ [][NextParse]_vars
    /\ WF_vars(ParseEnd)
    /\ ([]<>pdone \/ []<><<ParseStmt \/ ParseSkip>>_vars)

(***************************************************************************)
(* Interpreter state (interpreter.rs:46-50, 138-158)                       *)
(*                                                                         *)
(* A scope (HashMap<Rc<str>, Value>) and the function table are functions  *)
(* from names to what they hold.                                           *)
(***************************************************************************)
EmptyMap == <<>>
Insert(m, key, v) == [n \in (DOMAIN m) \cup {key} |-> IF n = key THEN v ELSE m[n]]

\* The scopes of es that contain name.
ScopesWith(es, name) == {d \in 1..Len(es) : name \in DOMAIN es[d]}

\* The index of the scope the reversed search finds name in, or 0.
innermost(es, name) ==
    IF ScopesWith(es, name) = {} THEN 0
    ELSE CHOOSE d \in ScopesWith(es, name) : \A o \in ScopesWith(es, name) : o <= d

\* Variant of target_scope that searches the scopes from the first.
target_scope_from_first(es, name) ==
    IF ScopesWith(es, name) = {} THEN Len(es)
    ELSE CHOOSE d \in ScopesWith(es, name) : \A o \in ScopesWith(es, name) : d <= o

\* The scope set_variable writes: the one found, else the last.
target_scope(es, name) ==
    IF innermost(es, name) # 0 THEN innermost(es, name) ELSE Len(es)

\* An assignment that always writes the last scope.
set_variable_local(es, name, val) ==
    [es EXCEPT ![Len(es)] = Insert(@, name, val)]

\* env_stack after set_variable(name, val).
set_variable(es, name, val) ==
    [es EXCEPT ![target_scope(es, name)] = Insert(@, name, val)]

get_variable(es, name) ==
    IF innermost(es, name) # 0 THEN es[innermost(es, name)][name] ELSE NumberV(0)

(***************************************************************************)
(* Rc<Vec<Value>>: cells, handles and the strong count                     *)
(***************************************************************************)
IsArrayAt(v, a) == v.t = "Array" /\ v.rc = a

\* The handles to cell a among the values of a sequence.
HandlesInSeq(vs, a) == Cardinality({i \in 1..Len(vs) : IsArrayAt(vs[i], a)})

\* The handles to cell a among the values of a scope.
HandlesInScope(scope, a) == Cardinality({n \in DOMAIN scope : IsArrayAt(scope[n], a)})

\* What a register of the call stack holds: the Value of a finished
\* evaluate, or the Option<Value> of a finished execute or execute_stmt.
NoneR == [t |-> "None"]
SomeR(v) == [t |-> "Some", v |-> v]
ValuesOfRet(r) ==
    IF r = <<>> THEN <<>>
    ELSE IF r[1].t = "None" THEN <<>>
    ELSE IF r[1].t = "Some" THEN <<r[1].v>>
    ELSE <<r[1]>>

\* The cells named by the values of a sequence.
CellsOfSeq(vs) == {vs[i].rc : i \in {j \in 1..Len(vs) : vs[j].t = "Array"}}
CellsOfScope(scope) == {scope[n].rc : n \in {m \in DOMAIN scope : scope[m].t = "Array"}}

\* The cells held directly by the scopes, by the locals of the frames and
\* by the register.
RootCells(es, stk, r) ==
    UNION {CellsOfScope(es[d]) : d \in 1..Len(es)}
        \cup UNION {CellsOfSeq(stk[j].vals) : j \in 1..Len(stk)}
        \cup CellsOfSeq(ValuesOfRet(r))

\* The cells not yet dropped: those reachable from the cells in S.
RECURSIVE Reachable(_, _)
Reachable(h, S) ==
    LET more == S \cup UNION {CellsOfSeq(h[a]) : a \in S}
    IN  IF more = S THEN S ELSE Reachable(h, more)

LiveCells(es, stk, r, h) == Reachable(h, RootCells(es, stk, r))

\* Rc::strong_count of cell a.
strong_count(es, stk, r, h, a) ==
    SumSeq([d \in 1..Len(es) |-> HandlesInScope(es[d], a)])
        + SumSeq([j \in 1..Len(stk) |-> HandlesInSeq(stk[j].vals, a)])
        + HandlesInSeq(ValuesOfRet(r), a)
        + SumSeq([c \in 1..Len(h) |-> IF c \in LiveCells(es, stk, r, h) THEN HandlesInSeq(h[c], a) ELSE 0])

\* Variant of must_clone that always finds the handle unique.
must_clone_never(count) == FALSE

\* Rc::make_mut clones the vector unless the handle is the only one.
must_clone(count) == count # 1

\* The value a Value denotes: an array with the values its elements denote.
RECURSIVE Deref(_, _)
Deref(v, h) ==
    IF v.t = "Array" THEN [t |-> "Array", elems |-> [i \in 1..Len(h[v.rc]) |-> Deref(h[v.rc][i], h)]]
    ELSE v

(***************************************************************************)
(* Native functions (interpreter.rs:323-441) and AssignIndex's update      *)
(* (interpreter.rs:233-257) as functions of the state they read            *)
(***************************************************************************)
whitespace == {" ", "\t", "\n", "\r"}

\* str::trim
RECURSIVE trim_start(_)
trim_start(cs) ==
    IF cs # <<>> /\ Head(cs) \in whitespace THEN trim_start(Tail(cs)) ELSE cs

RECURSIVE trim_end(_)
trim_end(cs) ==
    IF cs # <<>> /\ Last(cs) \in whitespace THEN trim_end(Front(cs)) ELSE cs

trim(cs) == trim_end(trim_start(cs))

IsDigit(c) == \E i \in 1..10 : digit_chars[i] = c
DigitValue(c) == (CHOOSE i \in 1..10 : digit_chars[i] = c) - 1

RECURSIVE DigitsValue(_)
DigitsValue(ds) ==
    IF ds = <<>> THEN 0 ELSE 10 * DigitsValue(Front(ds)) + DigitValue(Last(ds))

\* A parse that accepts digits only, no sign.
parse_i64_unsigned(cs) ==
    IF cs = <<>> THEN <<>>
    ELSE IF \E i \in 1..Len(cs) : ~IsDigit(cs[i]) THEN <<>>
    ELSE IF InRange(DigitsValue(cs)) THEN <<DigitsValue(cs)>>
    ELSE <<>>

\* str::parse::<i64>: <<n>> for an optional sign and one or more digits
\* whose value is in range, <<>> for an Err.
parse_i64(cs) ==
    LET signed == cs # <<>> /\ Head(cs) \in {"+", "-"}
        ds == IF signed THEN Tail(cs) ELSE cs
        n == IF signed /\ Head(cs) = "-" THEN -DigitsValue(ds) ELSE DigitsValue(ds)
    IN  IF ds = <<>> THEN <<>>
        ELSE IF \E i \in 1..Len(ds) : ~IsDigit(ds[i]) THEN <<>>
        ELSE IF InRange(n) THEN <<n>>
        ELSE <<>>

n_son == <<"s", "o", "n">>
n_matn == <<"m", "a", "t", "n">>
n_turi == <<"t", "u", "r", "i">>
n_uzunlik == <<"u", "z", "u", "n", "l", "i", "k">>
n_qosh == <<"q", "o", "s", "h">>
n_internet_ol == <<"i", "n", "t", "e", "r", "n", "e", "t", "_", "o", "l">>
n_internet_yoz == <<"i", "n", "t", "e", "r", "n", "e", "t", "_", "y", "o", "z">>
NativeNames == {n_son, n_matn, n_turi, n_uzunlik, n_qosh, n_internet_ol, n_internet_yoz}

s_mantiq == <<"m", "a", "n", "t", "i", "q">>
s_massiv == <<"m", "a", "s", "s", "i", "v">>
s_nomalum == <<"n", "o", "m", "a", "'", "l", "u", "m">>

son(arg_values) ==
    IF arg_values = <<>> THEN NumberV(0)
    ELSE IF arg_values[1].t = "String"
    THEN (IF parse_i64(trim(arg_values[1].s)) = <<>> THEN NumberV(0)
          ELSE NumberV(parse_i64(trim(arg_values[1].s))[1]))
    ELSE IF arg_values[1].t = "Number" THEN arg_values[1]
    ELSE NumberV(0)

matn(arg_values, h) ==
    IF arg_values = <<>> THEN empty_string ELSE StringV(Display(arg_values[1], h))

turi(arg_values) ==
    IF arg_values = <<>> THEN StringV(s_nomalum)
    ELSE IF arg_values[1].t = "Number" THEN StringV(n_son)
    ELSE IF arg_values[1].t = "String" THEN StringV(n_matn)
    ELSE IF arg_values[1].t = "Bool" THEN StringV(s_mantiq)
    ELSE StringV(s_massiv)

uzunlik(arg_values, h) ==
    IF arg_values = <<>> THEN NumberV(0)
    ELSE IF arg_values[1].t = "Array" THEN NumberV(Len(h[arg_values[1].rc]))
    ELSE NumberV(0)

\* Variant of qosh that pushes onto the vector of its first argument.
qosh_in_place(arg_values, h) ==
    IF Len(arg_values) >= 2 /\ arg_values[1].t = "Array"
    THEN [v |-> arg_values[1], heap |-> [h EXCEPT ![arg_values[1].rc] = Append(@, arg_values[2])]]
    ELSE [v |-> NumberV(0), heap |-> h]

\* The value returned and the heap after it: the vector is cloned, the
\* clone gets the second argument pushed and an Rc of its own.
qosh(arg_values, h) ==
    IF Len(arg_values) >= 2 /\ arg_values[1].t = "Array"
    THEN [v |-> ArrayV(Len(h) + 1), heap |-> Append(h, Append(h[arg_values[1].rc], arg_values[2]))]
    ELSE [v |-> NumberV(0), heap |-> h]

\* Expr::Index on the values of its target and its index.
index_value(target_val, index_val, h) ==
    IF target_val.t # "Array" THEN NumberV(0)
    ELSE IF index_val.t # "Number" THEN NumberV(0)
    ELSE IF index_val.n >= 0 /\ index_val.n < Len(h[target_val.rc]) THEN h[target_val.rc][index_val.n + 1]
    ELSE NumberV(0)

\* An update that takes the index one past the end for a push.
assign_index_growing(es, stk, r, h, name, index_val, value_val) ==
    LET d == innermost(es, name)
    IN  IF d = 0 THEN [env |-> es, heap |-> h, err |-> TRUE]
        ELSE IF es[d][name].t # "Array" THEN [env |-> es, heap |-> h, err |-> TRUE]
        ELSE IF index_val.t # "Number" THEN [env |-> es, heap |-> h, err |-> TRUE]
        ELSE LET old == es[d][name].rc
                 cloned == must_clone(strong_count(es, stk, r, h, old))
                 cell == IF cloned THEN Len(h) + 1 ELSE old
                 h1 == IF cloned THEN Append(h, h[old]) ELSE h
                 es1 == IF cloned THEN [es EXCEPT ![d] = Insert(@, name, ArrayV(cell))] ELSE es
             IN  IF index_val.n >= 0 /\ index_val.n < Len(h1[cell])
                 THEN [env |-> es1, heap |-> [h1 EXCEPT ![cell][index_val.n + 1] = value_val], err |-> FALSE]
                 ELSE IF index_val.n = Len(h1[cell])
                 THEN [env |-> es1, heap |-> [h1 EXCEPT ![cell] = Append(@, value_val)], err |-> FALSE]
                 ELSE [env |-> es1, heap |-> h1, err |-> TRUE]

\* The scopes and the heap after the update of Stmt::AssignIndex, and
\* whether one of its four eprintln! lines was written; stk and r are the
\* call stack and the register, whose values hold handles.
assign_index(es, stk, r, h, name, index_val, value_val) ==
    LET d == innermost(es, name)
    IN  IF d = 0 THEN [env |-> es, heap |-> h, err |-> TRUE]
        ELSE IF es[d][name].t # "Array" THEN [env |-> es, heap |-> h, err |-> TRUE]
        ELSE IF index_val.t # "Number" THEN [env |-> es, heap |-> h, err |-> TRUE]
        ELSE LET old == es[d][name].rc
                 cloned == must_clone(strong_count(es, stk, r, h, old))
                 cell == IF cloned THEN Len(h) + 1 ELSE old
                 h1 == IF cloned THEN Append(h, h[old]) ELSE h
                 es1 == IF cloned THEN [es EXCEPT ![d] = Insert(@, name, ArrayV(cell))] ELSE es
             IN  IF index_val.n >= 0 /\ index_val.n < Len(h1[cell])
                 THEN [env |-> es1, heap |-> [h1 EXCEPT ![cell][index_val.n + 1] = value_val], err |-> FALSE]
                 ELSE [env |-> es1, heap |-> h1, err |-> TRUE]

\* A scope that binds the parameters an argument was given for and no other.
call_scope_given(params, arg_values) ==
    [n \in {params[i] : i \in {j \in 1..Len(params) : j <= Len(arg_values)}} |->
        arg_values[CHOOSE j \in 1..Len(params) : params[j] = n /\ j <= Len(arg_values)]]

\* The scope of a call: each parameter bound to its argument, or to
\* Number(0) where there is none; of two parameters of one name the later
\* insert stays.
call_scope(params, arg_values) ==
    [n \in {params[i] : i \in 1..Len(params)} |->
        LET i == CHOOSE j \in 1..Len(params) : params[j] = n /\ \A o \in 1..Len(params) : params[o] = n => o <= j
        IN  IF i <= Len(arg_values) THEN arg_values[i] ELSE NumberV(0)]

\* The left operand decides the result of && or ||.
short_circuits_never(op, l) == FALSE

short_circuits(op, l) ==
    IF op = op_and THEN ~is_truthy(l)
    ELSE IF op = op_or THEN is_truthy(l)
    ELSE FALSE

(***************************************************************************)
(* Specification Spec: Interpreter::execute on a program, one step of the  *)
(* Rust call stack at a time.                                              *)
(*                                                                         *)
(* A frame of stack is an activation of execute (k = "execute", body the   *)
(* statements, pc the number of statements started), of execute_stmt       *)
(* (k = "stmt", node the statement) or of evaluate (k = "eval", node the   *)
(* expression); pc is its position, i the position of a for loop in its    *)
(* elements, vals the Values its locals hold.  ret is the register a       *)
(* returning activation leaves its result in: <<>> when the top frame has  *)
(* just been called.                                                       *)
(***************************************************************************)
Block == [x |-> "block"]
Frame(k, node, body) == [k |-> k, node |-> node, body |-> body, pc |-> 0, i |-> 0, vals |-> <<>>]
ExecuteFrame(body) == Frame("execute", Block, body)
StmtFrame(stmt) == Frame("stmt", stmt, <<>>)
EvalFrame(expr) == Frame("eval", expr, <<>>)

Top == stack[Len(stack)]

WithinBounds ==
    /\ Len(stack) <= MaxStack
    /\ Len(heap) <= MaxHeap
    /\ Len(out) <= MaxOut
    /\ requests <= MaxOut

Running == status = "running" /\ stack # <<>> /\ WithinBounds
InExecute == Running /\ Top.k = "execute"
InStmt(kind, pc) == Running /\ Top.k = "stmt" /\ Top.node.s = kind /\ Top.pc = pc
InEval(kind, pc) == Running /\ Top.k = "eval" /\ Top.node.e = kind /\ Top.pc = pc

\* The top frame, now f, calls child.
Invoke(f, child) == stack' = Append(Append(Front(stack), f), child) /\ ret' = <<>>
\* The top frame returns r.
Yield(r) == stack' = Front(stack) /\ ret' = <<r>>

\* What a step named name leaves alone besides the interpreter's own state.
Step(name) == ev' = name /\ UNCHANGED <<status, overflow_checks, nvars, pvars, lvars, cvars>>
\* A step that only moves the call stack.
Control(name) == Step(name) /\ UNCHANGED <<env_stack, functions, heap, out, requests>>

\* execute (interpreter.rs:160-167)
\* A statement that lets execute go on although it returned a value.
returned_never(r) == FALSE

\* if let Some(val) = self.execute_stmt(stmt) (interpreter.rs:162-164)
returned(r) == ValuesOfRet(r) # <<>>

ExecuteStmt ==
    /\ InExecute
    /\ ~returned(ret)
    /\ Top.pc < Len(Top.body)
    /\ Invoke([Top EXCEPT !.pc = @ + 1], StmtFrame(Top.body[Top.pc + 1]))
    /\ Control("ExecuteStmt")

ExecuteEnd ==
    /\ InExecute
    /\ ~returned(ret)
    /\ Top.pc = Len(Top.body)
    /\ Yield(NoneR)
    /\ Control("ExecuteEnd")

ExecuteReturn ==
    /\ InExecute
    /\ returned(ret)
    /\ Yield(ret[1])
    /\ Control("ExecuteReturn")

\* Stmt::Print (interpreter.rs:171-175)
PrintEval ==
    /\ InStmt("Print", 0)
    /\ Invoke([Top EXCEPT !.pc = 1], EvalFrame(Top.node.expr))
    /\ Control("PrintEval")

PrintLine ==
    /\ InStmt("Print", 1)
    /\ out' = Append(out, Display(ret[1], heap))
    /\ Yield(NoneR)
    /\ Step("PrintLine")
    /\ UNCHANGED <<env_stack, functions, heap, requests>>

\* Stmt::If (interpreter.rs:176-182)
IfEval ==
    /\ InStmt("If", 0)
    /\ Invoke([Top EXCEPT !.pc = 1], EvalFrame(Top.node.cond))
    /\ Control("IfEval")

IfThen ==
    /\ InStmt("If", 1)
    /\ is_truthy(ret[1])
    /\ Invoke([Top EXCEPT !.pc = 2], ExecuteFrame(Top.node.body))
    /\ Control("IfThen")

IfSkip ==
    /\ InStmt("If", 1)
    /\ ~is_truthy(ret[1])
    /\ Yield(NoneR)
    /\ Control("IfSkip")

IfReturn ==
    /\ InStmt("If", 2)
    /\ Yield(ret[1])
    /\ Control("IfReturn")

\* Stmt::Loop (interpreter.rs:183-193)
LoopEval ==
    /\ InStmt("Loop", 0)
    /\ Invoke([Top EXCEPT !.pc = 1], EvalFrame(Top.node.cond))
    /\ Control("LoopEval")

LoopBody ==
    /\ InStmt("Loop", 1)
    /\ is_truthy(ret[1])
    /\ Invoke([Top EXCEPT !.pc = 2], ExecuteFrame(Top.node.body))
    /\ Control("LoopBody")

LoopExit ==
    /\ InStmt("Loop", 1)
    /\ ~is_truthy(ret[1])
    /\ Yield(NoneR)
    /\ Control("LoopExit")

LoopAgain ==
    /\ InStmt("Loop", 2)
    /\ ret[1].t = "None"
    /\ Invoke([Top EXCEPT !.pc = 1], EvalFrame(Top.node.cond))
    /\ Control("LoopAgain")

LoopReturn ==
    /\ InStmt("Loop", 2)
    /\ ret[1].t = "Some"
    /\ Yield(ret[1])
    /\ Control("LoopReturn")

\* Stmt::For (interpreter.rs:194-218): vals holds elements, i is the
\* position of the element the body runs for.
\* A loop that leaves its scope on the stack when the body returned.
scopes_after_body_unless_return(es, r) == IF r.t = "Some" THEN es ELSE Front(es)

\* env_stack.pop() after the body, before ret is looked at
\* (interpreter.rs:205-209).
scopes_after_body(es, r) == Front(es)

\* A loop that looks its collection up again for every element, where the
\* collection is a variable.
for_elements_of_variable(collection_val, node, es, h) ==
    IF node.collection.e = "Identifier" /\ get_variable(es, node.collection.name).t = "Array"
    THEN h[get_variable(es, node.collection.name).rc]
    ELSE h[collection_val.rc]

\* elements.iter(): the vector behind the Rc that collection_val holds
\* (interpreter.rs:195-200).
for_elements(collection_val, node, es, h) == h[collection_val.rc]

\* A loop that reuses its scope without clearing it.
next_scope_kept(scope, var_name, element) == Insert(scope, var_name, element)

\* The scope of an iteration: the HashMap of the loop, new or cleared after
\* the pop, with the loop variable inserted (interpreter.rs:199-208).
next_scope(scope, var_name, element) == Insert(EmptyMap, var_name, element)

ForEval ==
    /\ InStmt("For", 0)
    /\ Invoke([Top EXCEPT !.pc = 1], EvalFrame(Top.node.collection))
    /\ Control("ForEval")

ForNotArray ==
    /\ InStmt("For", 1)
    /\ ret[1].t # "Array"
    /\ Yield(NoneR)
    /\ Control("ForNotArray")

ForEmpty ==
    /\ InStmt("For", 1)
    /\ ret[1].t = "Array"
    /\ for_elements(ret[1], Top.node, env_stack, heap) = <<>>
    /\ Yield(NoneR)
    /\ Control("ForEmpty")

ForFirst ==
    /\ InStmt("For", 1)
    /\ ret[1].t = "Array"
    /\ for_elements(ret[1], Top.node, env_stack, heap) # <<>>
    /\ env_stack' = Append(env_stack, next_scope(EmptyMap, Top.node.var_name,
                                                  for_elements(ret[1], Top.node, env_stack, heap)[1]))
    /\ Invoke([Top EXCEPT !.pc = 2, !.i = 1, !.vals = <<ret[1]>>], ExecuteFrame(Top.node.body))
    /\ Step("ForFirst")
    /\ UNCHANGED <<functions, heap, out, requests>>

ForNext ==
    /\ InStmt("For", 2)
    /\ ret[1].t = "None"
    /\ Top.i < Len(for_elements(Top.vals[1], Top.node, Front(env_stack), heap))
    /\ env_stack' = Append(scopes_after_body(env_stack, ret[1]),
                           next_scope(Last(env_stack), Top.node.var_name,
                                      for_elements(Top.vals[1], Top.node, Front(env_stack), heap)[Top.i + 1]))
    /\ Invoke([Top EXCEPT !.i = @ + 1], ExecuteFrame(Top.node.body))
    /\ Step("ForNext")
    /\ UNCHANGED <<functions, heap, out, requests>>

ForEnd ==
    /\ InStmt("For", 2)
    /\ ret[1].t = "None"
    /\ Top.i >= Len(for_elements(Top.vals[1], Top.node, Front(env_stack), heap))
    /\ env_stack' = scopes_after_body(env_stack, ret[1])
    /\ Yield(NoneR)
    /\ Step("ForEnd")
    /\ UNCHANGED <<functions, heap, out, requests>>

ForReturn ==
    /\ InStmt("For", 2)
    /\ ret[1].t = "Some"
    /\ env_stack' = scopes_after_body(env_stack, ret[1])
    /\ Yield(ret[1])
    /\ Step("ForReturn")
    /\ UNCHANGED <<functions, heap, out, requests>>

\* Stmt::Assign (interpreter.rs:219-223)
AssignEval ==
    /\ InStmt("Assign", 0)
    /\ Invoke([Top EXCEPT !.pc = 1], EvalFrame(Top.node.expr))
    /\ Control("AssignEval")

AssignSet ==
    /\ InStmt("Assign", 1)
    /\ env_stack' = set_variable(env_stack, Top.node.name, ret[1])
    /\ Yield(NoneR)
    /\ Step("AssignSet")
    /\ UNCHANGED <<functions, heap, out, requests>>

\* Stmt::AssignIndex (interpreter.rs:224-259): vals holds index_val.
AssignIndexEvalIndex ==
    /\ InStmt("AssignIndex", 0)
    /\ Invoke([Top EXCEPT !.pc = 1], EvalFrame(Top.node.index))
    /\ Control("AssignIndexEvalIndex")

AssignIndexEvalValue ==
    /\ InStmt("AssignIndex", 1)
    /\ Invoke([Top EXCEPT !.pc = 2, !.vals = <<ret[1]>>], EvalFrame(Top.node.value))
    /\ Control("AssignIndexEvalValue")

AssignIndexStore ==
    /\ InStmt("AssignIndex", 2)
    /\ LET after == assign_index(env_stack, stack, ret, heap, Top.node.name, Top.vals[1], ret[1])
       IN  env_stack' = after.env /\ heap' = after.heap
    /\ Yield(NoneR)
    /\ Step("AssignIndexStore")
    /\ UNCHANGED <<functions, out, requests>>

\* Stmt::Function (interpreter.rs:260-267)
FunctionDefine ==
    /\ InStmt("Function", 0)
    /\ functions' = Insert(functions, Top.node.name, [params |-> Top.node.params, body |-> Top.node.body])
    /\ Yield(NoneR)
    /\ Step("FunctionDefine")
    /\ UNCHANGED <<env_stack, heap, out, requests>>

\* Stmt::Return (interpreter.rs:268)
ReturnEval ==
    /\ InStmt("Return", 0)
    /\ Invoke([Top EXCEPT !.pc = 1], EvalFrame(Top.node.expr))
    /\ Control("ReturnEval")

ReturnValue ==
    /\ InStmt("Return", 1)
    /\ Yield(SomeR(ret[1]))
    /\ Control("ReturnValue")

\* Stmt::Expr (interpreter.rs:269-272)
ExprEval ==
    /\ InStmt("Expr", 0)
    /\ Invoke([Top EXCEPT !.pc = 1], EvalFrame(Top.node.expr))
    /\ Control("ExprEval")

ExprDrop ==
    /\ InStmt("Expr", 1)
    /\ Yield(NoneR)
    /\ Control("ExprDrop")

\* Expr::Number, StringLiteral, Identifier (interpreter.rs:278-280)
EvalNumber ==
    /\ InEval("Number", 0)
    /\ Yield(NumberV(Top.node.n))
    /\ Control("EvalNumber")

EvalStringLiteral ==
    /\ InEval("StringLiteral", 0)
    /\ Yield(StringV(Top.node.s))
    /\ Control("EvalStringLiteral")

EvalIdentifier ==
    /\ InEval("Identifier", 0)
    /\ Yield(get_variable(env_stack, Top.node.name))
    /\ Control("EvalIdentifier")

\* Expr::Input (interpreter.rs:281-288): a line of stdin, or <<>> for an
\* Err of read_line.
InputLines == {<<<<"7", "\n">>>>, <<<<" ", "-", "3", " ", "\n">>>>, <<<<"x", "\n">>>>, <<<<>>>>, <<>>}

EvalInput ==
    /\ InEval("Input", 0)
    /\ \E line \in InputLines :
         Yield(IF line = <<>> THEN empty_string ELSE StringV(trim(line[1])))
    /\ Control("EvalInput")

\* Expr::Array (interpreter.rs:289-295): vals holds values.
ArrayValues == Top.vals \o ValuesOfRet(ret)

ArrayElement ==
    /\ InEval("Array", 0)
    /\ Len(ArrayValues) < Len(Top.node.elements)
    /\ Invoke([Top EXCEPT !.vals = ArrayValues], EvalFrame(Top.node.elements[Len(ArrayValues) + 1]))
    /\ Control("ArrayElement")

ArrayNew ==
    /\ InEval("Array", 0)
    /\ Len(ArrayValues) = Len(Top.node.elements)
    /\ heap' = Append(heap, ArrayValues)
    /\ Yield(ArrayV(Len(heap) + 1))
    /\ Step("ArrayNew")
    /\ UNCHANGED <<env_stack, functions, out, requests>>

\* Expr::Index (interpreter.rs:296-316): vals holds target_val.
IndexEvalTarget ==
    /\ InEval("Index", 0)
    /\ Invoke([Top EXCEPT !.pc = 1], EvalFrame(Top.node.target))
    /\ Control("IndexEvalTarget")

IndexEvalIndex ==
    /\ InEval("Index", 1)
    /\ Invoke([Top EXCEPT !.pc = 2, !.vals = <<ret[1]>>], EvalFrame(Top.node.index))
    /\ Control("IndexEvalIndex")

IndexGet ==
    /\ InEval("Index", 2)
    /\ Yield(index_value(Top.vals[1], ret[1], heap))
    /\ Control("IndexGet")

\* Expr::Call (interpreter.rs:317-468): vals holds arg_values.
CallArgs == Top.vals \o ValuesOfRet(ret)
ArgsDone == InEval("Call", 0) /\ Len(CallArgs) = Len(Top.node.args)

CallArg ==
    /\ InEval("Call", 0)
    /\ Len(CallArgs) < Len(Top.node.args)
    /\ Invoke([Top EXCEPT !.vals = CallArgs], EvalFrame(Top.node.args[Len(CallArgs) + 1]))
    /\ Control("CallArg")

CallSon ==
    /\ ArgsDone
    /\ Top.node.name = n_son
    /\ Yield(son(CallArgs))
    /\ Control("CallSon")

CallMatn ==
    /\ ArgsDone
    /\ Top.node.name = n_matn
    /\ Yield(matn(CallArgs, heap))
    /\ Control("CallMatn")

CallTuri ==
    /\ ArgsDone
    /\ Top.node.name = n_turi
    /\ Yield(turi(CallArgs))
    /\ Control("CallTuri")

CallUzunlik ==
    /\ ArgsDone
    /\ Top.node.name = n_uzunlik
    /\ Yield(uzunlik(CallArgs, heap))
    /\ Control("CallUzunlik")

CallQosh ==
    /\ ArgsDone
    /\ Top.node.name = n_qosh
    /\ heap' = qosh(CallArgs, heap).heap
    /\ Yield(qosh(CallArgs, heap).v)
    /\ Step("CallQosh")
    /\ UNCHANGED <<env_stack, functions, out, requests>>

\* What Url::parse, to_socket_addrs and the server may answer for the text
\* of the first argument.
NetAnswers ==
    { <<UrlErr, DnsErr>>,
      <<Url(s_http, <<h_example>>, <<>>), DnsErr>>,
      <<Url(s_http, <<h_example>>, <<>>), DnsOk(<<ip_8_8_8_8>>)>>,
      <<Url(s_https, <<h_localtest>>, <<>>), DnsOk(<<ip_8_8_8_8, ip_10_0_0_5>>)>> }

NativeInternetOl ==
    /\ ArgsDone
    /\ Top.node.name = n_internet_ol
    /\ \E ud \in NetAnswers, http \in HttpOutcomes :
         LET r == internet_ol(Len(CallArgs), ud[1], ud[2], http)
         IN  /\ requests' = IF r.sent THEN requests + 1 ELSE requests
             /\ Yield(r.v)
    /\ Step("NativeInternetOl")
    /\ UNCHANGED <<env_stack, functions, heap, out>>

NativeInternetYoz ==
    /\ ArgsDone
    /\ Top.node.name = n_internet_yoz
    /\ \E ud \in NetAnswers, http \in HttpOutcomes :
         LET r == internet_yoz(Len(CallArgs), ud[1], ud[2], http)
         IN  /\ requests' = IF r.sent THEN requests + 1 ELSE requests
             /\ Yield(r.v)
    /\ Step("NativeInternetYoz")
    /\ UNCHANGED <<env_stack, functions, heap, out>>

\* A match on the name that a definition of the same name overrides.
is_native_unless_defined(name) == name \in NativeNames /\ name \notin DOMAIN functions

\* The match on the name (interpreter.rs:323-441): every arm of a native
\* name returns, the arm `_` falls through to the user functions.
is_native(name) == name \in NativeNames

CallUser ==
    /\ ArgsDone
    /\ ~is_native(Top.node.name)
    /\ Top.node.name \in DOMAIN functions
    /\ env_stack' = Append(env_stack, call_scope(functions[Top.node.name].params, CallArgs))
    /\ Invoke([Top EXCEPT !.pc = 1, !.vals = CallArgs], ExecuteFrame(functions[Top.node.name].body))
    /\ Step("CallUser")
    /\ UNCHANGED <<functions, heap, out, requests>>

CallReturn ==
    /\ InEval("Call", 1)
    /\ env_stack' = Front(env_stack)
    /\ Yield(IF ret[1].t = "Some" THEN ret[1].v ELSE NumberV(0))
    /\ Step("CallReturn")
    /\ UNCHANGED <<functions, heap, out, requests>>

CallUnknown ==
    /\ ArgsDone
    /\ ~is_native(Top.node.name)
    /\ Top.node.name \notin DOMAIN functions
    /\ Yield(NumberV(0))
    /\ Control("CallUnknown")

\* Expr::UnaryOp (interpreter.rs:469-475)
UnaryEval ==
    /\ InEval("UnaryOp", 0)
    /\ Invoke([Top EXCEPT !.pc = 1], EvalFrame(Top.node.right))
    /\ Control("UnaryEval")

UnaryApply ==
    /\ InEval("UnaryOp", 1)
    /\ Yield(IF Top.node.op = op_not THEN BoolV(~is_truthy(ret[1])) ELSE BoolV(FALSE))
    /\ Control("UnaryApply")

\* Expr::BinaryOp (interpreter.rs:476-496): vals holds l while the right
\* operand of an operator other than && and || is evaluated.
BinaryEvalLeft ==
    /\ InEval("BinaryOp", 0)
    /\ Invoke([Top EXCEPT !.pc = 1], EvalFrame(Top.node.left))
    /\ Control("BinaryEvalLeft")

BinaryShortCircuit ==
    /\ InEval("BinaryOp", 1)
    /\ short_circuits(Top.node.op, ret[1])
    /\ Yield(BoolV(Top.node.op = op_or))
    /\ Control("BinaryShortCircuit")

BinaryEvalRight ==
    /\ InEval("BinaryOp", 1)
    /\ ~short_circuits(Top.node.op, ret[1])
    /\ Invoke([Top EXCEPT !.pc = 2, !.vals = IF Top.node.op \in {op_and, op_or} THEN <<>> ELSE <<ret[1]>>],
              EvalFrame(Top.node.right))
    /\ Control("BinaryEvalRight")

BinaryLogical ==
    /\ InEval("BinaryOp", 2)
    /\ Top.node.op \in {op_and, op_or}
    /\ Yield(BoolV(is_truthy(ret[1])))
    /\ Control("BinaryLogical")

BinaryApply ==
    /\ InEval("BinaryOp", 2)
    /\ Top.node.op \notin {op_and, op_or}
    /\ ~evaluate_binary(Top.vals[1], Top.node.op, ret[1], heap, overflow_checks).panic
    /\ Yield(evaluate_binary(Top.vals[1], Top.node.op, ret[1], heap, overflow_checks).v)
    /\ Control("BinaryApply")

\* l / r with r = 0 or with l = i64::MIN and r = -1, and an overflow of
\* l + r, l - r or l * r in a build with overflow checks: the process
\* panics.
BinaryPanic ==
    /\ InEval("BinaryOp", 2)
    /\ Top.node.op \notin {op_and, op_or}
    /\ evaluate_binary(Top.vals[1], Top.node.op, ret[1], heap, overflow_checks).panic
    /\ status' = "panic"
    /\ ev' = "BinaryPanic"
    /\ UNCHANGED <<env_stack, functions, heap, stack, ret, out, overflow_checks, requests, nvars, pvars, lvars, cvars>>

\* main (main.rs:31-32): execute has returned.
Exit ==
    /\ status = "running"
    /\ stack = <<>>
    /\ status' = "done"
    /\ ret' = <<>>
    /\ ev' = "Exit"
    /\ UNCHANGED <<env_stack, functions, heap, stack, out, overflow_checks, requests, nvars, pvars, lvars, cvars>>

\* The run has outgrown a bound of the model and is not followed further.
Cut ==
    /\ status = "running"
    /\ ~WithinBounds
    /\ status' = "cut"
    /\ ev' = "Cut"
    /\ UNCHANGED <<env_stack, functions, heap, stack, ret, out, overflow_checks, requests, nvars, pvars, lvars, cvars>>

(***************************************************************************)
(* The programs Spec runs, as Parser::parse returns them                   *)
(***************************************************************************)
v_a == <<"a">>
v_b == <<"b">>
v_e == <<"e">>
v_p == <<"p">>
v_x == <<"x">>
v_raqam == <<"r", "a", "q", "a", "m">>
f_d == <<"d">>
f_f == <<"f">>
f_g == <<"g">>
f_h == <<"h">>
f_k == <<"k">>
f_m == <<"m">>
f_u == <<"u">>
f_r == <<"r">>
f_s == <<"s">>
f_w == <<"w">>

Id(name) == EIdentifier(name)
Num(n) == ENumber(n)
Str(cs) == EStringLiteral(cs)
Bin(l, op, r) == EBinaryOp(l, op, r)
Arr(es) == EArray(es)
At(target, index) == EIndex(Id(target), index)
Call0(name) == ECall(name, <<>>)
Call1(name, x) == ECall(name, <<x>>)
Call2(name, x, y) == ECall(name, <<x, y>>)

\* 0 - n, the source having no negative literal.
Neg(n) == Bin(Num(0), op_minus, Num(n))
\* i64::MIN and i64::MAX at the model's width.
MinExpr == Bin(Neg(MaxInt), op_minus, Num(1))
MaxExpr == Num(MaxInt)

\* a = [1, 2], shared in the ways a program can share an array.
SetA == SAssign(v_a, Arr(<<Num(1), Num(2)>>))
ShareByAssign == <<SetA, SAssign(v_b, Id(v_a))>>
ShareByNesting == <<SetA, SAssign(v_b, Arr(<<Id(v_a), Id(v_a)>>))>>
Unshared == <<SetA, SAssign(v_b, Arr(<<Num(1), Num(2)>>))>>
Sharings == {ShareByAssign, ShareByNesting, Unshared}

\* a[i] = v for indices inside and outside the array and of the wrong type.
Stores ==
    {SAssignIndex(v_a, i, v) : i \in {Num(0), Num(1), Num(2), Neg(1), Str(<<"k">>)}, v \in {Num(9), Id(v_a)}}
        \cup {SAssignIndex(v_x, Num(0), Num(9)), SAssignIndex(v_raqam, Num(0), Num(9))}

Observe == <<SPrint(Id(v_b)), SPrint(Id(v_a))>>

StorePrograms == {sh \o <<st>> \o Observe : sh \in Sharings, st \in Stores}

\* funksiya f(p) { p[0] = 9  qaytar p }   a = [1, 2]   b = f(a): the
\* argument is shared with the caller's variable while the body runs.
ByArgumentProgram ==
    <<SFunction(f_f, <<v_p>>, <<SAssignIndex(v_p, Num(0), Num(9)), SReturn(Id(v_p))>>),
      SetA, SAssign(v_b, Call1(f_f, Id(v_a)))>> \o Observe

\* a = [[1], [2]]   uchun e ichida a { e[0] = 7  a[1] = e }: the element is
\* shared with the array, the array with the loop.
ByElementProgram ==
    <<SAssign(v_a, Arr(<<Arr(<<Num(1)>>), Arr(<<Num(2)>>)>>)),
      SAssign(v_b, Id(v_a)),
      SFor(v_e, Id(v_a), <<SAssignIndex(v_e, Num(0), Num(7)), SAssignIndex(v_a, Num(1), Id(v_e))>>)>> \o Observe

\* Programs around a for loop whose variable is x.
LoopBodies ==
    { <<SAssign(v_x, Num(9))>>,
      <<SAssign(v_x, Num(9)), SPrint(Id(v_x))>>,
      <<SAssignIndex(v_x, Num(0), Num(9))>>,
      <<SExpr(Call0(f_h))>>,
      <<SFor(v_x, Arr(<<Num(5)>>), <<SAssign(v_x, Num(8))>>), SAssign(v_x, Bin(Id(v_x), op_plus, Num(1)))>> }
LoopCollections == {Arr(<<Num(3), Num(4)>>), Arr(<<Arr(<<Num(3)>>)>>), Arr(<<>>), Num(5)}
LoopPrefixes == {<<>>, <<SAssign(v_x, Num(1))>>, <<SAssign(v_x, Arr(<<Num(1)>>))>>}
DefineH == SFunction(f_h, <<>>, <<SAssign(v_x, Num(8))>>)

ForPrograms ==
    {<<DefineH>> \o pre \o <<SFor(v_x, c, body), SPrint(Id(v_x))>> :
        pre \in LoopPrefixes, c \in LoopCollections, body \in LoopBodies}

\* funksiya g() { uchun x ichida [3, 4] { x = 9  qaytar x } }: the loop is
\* left by a return.
ForReturnPrograms ==
    {<<SFunction(f_g, <<>>, <<SFor(v_x, Arr(<<Num(3), Num(4)>>), <<SAssign(v_x, Num(9)), SReturn(Id(v_x))>>)>>)>>
        \o pre \o <<SPrint(Call0(f_g)), SPrint(Id(v_x))>> : pre \in LoopPrefixes}

\* funksiya d() { takrorla 1 { } } never returns; funksiya s() { x = 7
\* yoz 3  qaytar 1 } has effects.
DefineD == SFunction(f_d, <<>>, <<SLoop(Num(1), <<>>)>>)
DefineS == SFunction(f_s, <<>>, <<SAssign(v_x, Num(7)), SPrint(Num(3)), SReturn(Num(1))>>)
LeftOperands == {Num(0), Num(1), Str(<<"t">>), Bin(Num(1), op_lt, Num(2)), Bin(Num(2), op_lt, Num(1))}
RightOperands == {Call0(f_d), Call0(f_s), Num(0), Num(2), Str(<<"t">>)}

LogicalPrograms ==
    {<<DefineD, DefineS, SPrint(Bin(l, op, r)), SPrint(Id(v_x))>> :
        l \in LeftOperands, op \in {op_and, op_or}, r \in RightOperands}

\* qosh on arrays and on what is no array.
QoshPrograms ==
    {<<SAssign(v_a, a), SAssign(v_b, Call2(n_qosh, Id(v_a), x)), SPrint(Call1(n_uzunlik, Id(v_b)))>> \o Observe :
        a \in {Arr(<<>>), Arr(<<Num(1), Num(2)>>), Num(5)}, x \in {Num(3), Id(v_a), Str(<<"s">>)}}
        \cup {<<SetA, SAssign(v_a, Call2(n_qosh, Id(v_a), Num(3))), SPrint(Call1(n_qosh, Id(v_a))), SPrint(Id(v_a))>>}

\* yoz l o r on numbers at and around the ends of the range.
ArithOperands == {Num(0), Num(3), Neg(1), MaxExpr, MinExpr}
ArithPrograms ==
    {<<SPrint(Bin(l, op, r))>> : l \in ArithOperands, op \in ArithOps, r \in ArithOperands}

s_url == <<"h", "t", "t", "p", ":", "/", "/", "e", "x", ".", "u", "z", "/">>

\* Programs that use the rest of the language.
OtherPrograms ==
    { <<SIf(Bin(Id(v_raqam), op_gt, Num(3)), <<SPrint(Str(<<"k">>))>>), SIf(Num(0), <<SPrint(Num(1))>>)>>,
      <<SFunction(f_m, <<v_p>>, <<SIf(Id(v_p), <<SReturn(Num(1))>>), SReturn(Num(2))>>),
        SPrint(Call1(f_m, Num(1))), SPrint(Call0(f_m))>>,
      <<SAssign(v_x, Num(0)), SLoop(Bin(Id(v_x), op_lt, Num(2)), <<SAssign(v_x, Bin(Id(v_x), op_plus, Num(1)))>>),
        SPrint(Id(v_x))>>,
      <<SFunction(f_w, <<>>, <<SLoop(Num(1), <<SReturn(Num(4))>>)>>), SPrint(Call0(f_w))>>,
      <<SPrint(Call1(n_son, EInput)), SPrint(Call0(n_son)), SPrint(Call1(n_son, Num(4)))>>,
      <<SPrint(Call1(n_son, Str(<<" ", "1", "2", " ">>))), SPrint(Call1(n_son, Arr(<<>>)))>>,
      <<SPrint(Call1(n_matn, Arr(<<Num(1), Str(<<"a">>), Arr(<<>>)>>))), SPrint(Call0(n_matn)),
        SPrint(Call1(n_matn, Neg(12)))>>,
      <<SPrint(Call1(n_turi, Num(1))), SPrint(Call1(n_turi, Str(<<>>))), SPrint(Call0(n_turi))>>,
      <<SPrint(Call1(n_turi, Arr(<<>>))), SPrint(Call1(n_turi, EUnaryOp(op_not, Num(0)))),
        SPrint(Call0(n_uzunlik))>>,
      <<SPrint(Bin(Str(<<"a">>), op_plus, Num(1))), SPrint(Bin(Num(1), op_plus, Str(<<"a">>))),
        SPrint(Bin(Str(<<"a">>), op_eq, Str(<<"a">>)))>>,
      <<SetA, SPrint(At(v_a, Num(1))), SPrint(At(v_a, Num(2))), SPrint(At(v_a, Str(<<"k">>)))>>,
      <<SPrint(At(v_raqam, Num(0))), SPrint(Call1(f_h, Num(1))), SExpr(Id(v_x))>>,
      <<SPrint(Call1(n_internet_ol, Str(s_url))), SPrint(Call0(n_internet_ol))>>,
      <<SPrint(Call2(n_internet_yoz, Str(s_url), Str(<<"{", "}">>))), SPrint(Call1(n_internet_yoz, Str(s_url)))>>,
      <<SFunction(f_r, <<>>, <<SReturn(Call0(f_r))>>), SExpr(Call0(f_r))>>,
      <<SLoop(Num(1), <<SPrint(Num(1))>>)>>,
      <<SLoop(Num(1), <<SAssign(v_a, Arr(<<Id(v_a)>>))>>)>> }

\* funksiya son(a) { yoz 9  qaytar 9 } and the like for every native name,
\* followed by a call of the name with no, one, two and three arguments.
ShadowArgs == {<<>>, <<Str(s_url)>>, <<Arr(<<>>), Num(2)>>, <<Num(1), Num(2), Num(3)>>}
ShadowPrograms ==
    {<<SFunction(name, <<v_a>>, <<SPrint(Num(9)), SReturn(Num(9))>>), SPrint(ECall(name, args))>> :
        name \in NativeNames, args \in ShadowArgs}

\* funksiya k(a, b) { yoz a  yoz b } with and without a return, called with
\* no, one, two and three arguments, and u, a function nobody defined.
CallBodies == {<<SPrint(Id(v_a)), SPrint(Id(v_b))>>, <<SReturn(Id(v_b))>>, <<>>}
CallArguments == {<<>>, <<Num(3)>>, <<Num(3), Str(<<"s">>)>>, <<Num(3), Num(4), Num(6)>>}
CallPrograms ==
    {<<SFunction(f_k, <<v_a, v_b>>, body), SAssign(v_x, ECall(name, args)), SPrint(Id(v_x))>> :
        body \in CallBodies, args \in CallArguments, name \in {f_k, f_u}}

\* x = 1  funksiya k(x) { x = 2  b = x } k(5)  yoz x: the parameter hides
\* the caller's x; in funksiya k(a) { x = 2  b = x } it does not.
ShadowingPrograms ==
    {pre \o <<SFunction(f_k, <<param>>, <<SAssign(v_x, Num(2)), SAssign(v_b, Id(v_x))>>),
              SExpr(Call1(f_k, Num(5))), SPrint(Id(v_x))>> :
        pre \in {<<>>, <<SAssign(v_x, Num(1))>>}, param \in {v_x, v_a}}

\* funksiya g() { uchun e ichida [3, 4] { takrorla 1 { agar 1 { qaytar e
\* yoz 1 }  yoz 2 }  yoz 2 }  yoz 2 }  yoz g(), followed by a return at the
\* top level from inside the same constructs.
ReturnNest(stmt) ==
    SFor(v_e, Arr(<<Num(3), Num(4)>>),
         <<SLoop(Num(1), <<SIf(Num(1), <<stmt, SPrint(Num(1))>>), SPrint(Num(2))>>), SPrint(Num(2))>>)
ReturnPrograms ==
    { <<SFunction(f_g, <<>>, <<ReturnNest(SReturn(Id(v_e))), SPrint(Num(2))>>), SPrint(Call0(f_g))>> \o rest :
        rest \in { <<SIf(Num(1), <<SReturn(Num(7)), SPrint(Num(7))>>), SPrint(Num(8))>>,
                   <<ReturnNest(SReturn(Num(7))), SPrint(Num(8))>>,
                   <<SReturn(Num(7)), SPrint(Num(8))>>,
                   <<SPrint(Num(8))>> } }

\* a = [1, 2]  uchun e ichida a { body  yoz e }  yoz a: the body stores
\* into a, assigns a anew or makes it longer.
SnapshotPrograms ==
    { <<SetA, SFor(v_e, Id(v_a), <<change, SPrint(Id(v_e))>>), SPrint(Id(v_a))>> :
        change \in { SAssignIndex(v_a, Num(1), Num(9)),
                     SAssign(v_a, Arr(<<Num(5)>>)),
                     SAssign(v_a, Call2(n_qosh, Id(v_a), Num(3))) } }

\* uchun e ichida [3, 4] { yoz b  b = e }  yoz b, alone and after b = 1.
ScopePrograms ==
    { pre \o <<SFor(v_e, Arr(<<Num(3), Num(4)>>), <<SPrint(Id(v_b)), SAssign(v_b, Id(v_e))>>), SPrint(Id(v_b))>> :
        pre \in {<<>>, <<SAssign(v_b, Num(1))>>} }

Programs ==
    ScopePrograms \cup SnapshotPrograms \cup ReturnPrograms \cup ShadowPrograms \cup CallPrograms \cup ShadowingPrograms \cup StorePrograms \cup {ByArgumentProgram, ByElementProgram} \cup ForPrograms \cup ForReturnPrograms
        \cup LogicalPrograms \cup QoshPrograms \cup ArithPrograms \cup OtherPrograms

\* main (main.rs:27-31): Interpreter::new, set_variable("raqam", 5) and
\* the call of execute; the build has overflow checks or has none.
Init ==
    /\ env_stack = <<Insert(EmptyMap, v_raqam, NumberV(5))>>
    /\ functions = EmptyMap
    /\ heap = <<>>
    /\ \E program \in Programs : stack = <<ExecuteFrame(program)>>
    /\ ret = <<>>
    /\ out = <<>>
    /\ status = "running"
    /\ ev = ""
    /\ overflow_checks \in BOOLEAN
    /\ requests = 0
    /\ IdleIp /\ IdleUrl /\ IdleParser /\ IdleLexer /\ IdleConv

Next ==
    \/ ExecuteStmt \/ ExecuteEnd \/ ExecuteReturn
    \/ PrintEval \/ PrintLine
    \/ IfEval \/ IfThen \/ IfSkip \/ IfReturn
    \/ LoopEval \/ LoopBody \/ LoopExit \/ LoopAgain \/ LoopReturn
    \/ ForEval \/ ForNotArray \/ ForEmpty \/ ForFirst \/ ForNext \/ ForEnd \/ ForReturn
    \/ AssignEval \/ AssignSet
    \/ AssignIndexEvalIndex \/ AssignIndexEvalValue \/ AssignIndexStore
    \/ FunctionDefine
    \/ ReturnEval \/ ReturnValue
    \/ ExprEval \/ ExprDrop
    \/ EvalNumber \/ EvalStringLiteral \/ EvalIdentifier \/ EvalInput
    \/ ArrayElement \/ ArrayNew
    \/ IndexEvalTarget \/ IndexEvalIndex \/ IndexGet
    \/ CallArg \/ CallSon \/ CallMatn \/ CallTuri \/ CallUzunlik \/ CallQosh
    \/ NativeInternetOl \/ NativeInternetYoz
    \/ CallUser \/ CallReturn \/ CallUnknown
    \/ UnaryEval \/ UnaryApply
    \/ BinaryEvalLeft \/ BinaryShortCircuit \/ BinaryEvalRight \/ BinaryLogical \/ BinaryApply \/ BinaryPanic
    \/ Exit \/ Cut

Spec == Init /\ [][Next]_vars

(***************************************************************************)
(* Claims about is_safe_ip and is_safe_url                                 *)
(***************************************************************************)
\* The first 16 bits of an IPv4 address.
High16(o) == 256 * o[1] + o[2]

\* Membership of the listed IPv4 ranges, by prefix.
InUnsafeV4Range(o) ==
    \/ High16(o) \div (2 ^ 8) = 127
    \/ High16(o) \div (2 ^ 8) = 10
    \/ High16(o) \div (2 ^ 4) = (256 * 172 + 16) \div (2 ^ 4)
    \/ High16(o) = 256 * 192 + 168
    \/ High16(o) = 256 * 169 + 254
    \/ High16(o) \div (2 ^ 8) = 0
    \/ High16(o) \div (2 ^ 6) = (256 * 100 + 64) \div (2 ^ 6)
    \/ \A i \in 1..4 : o[i] = 255

IsV4Mapped(g) == (\A i \in 1..5 : g[i] = 0) /\ g[6] = 65535
EmbeddedV4(g) == <<g[7] \div 256, g[7] % 256, g[8] \div 256, g[8] % 256>>

\* Membership of the listed IPv6 addresses and ranges, by prefix.
InUnsafeV6Range(g) ==
    \/ (\A i \in 1..7 : g[i] = 0) /\ g[8] \in {0, 1}
    \/ g[1] \div (2 ^ 9) = 64512 \div (2 ^ 9)
    \/ g[1] \div (2 ^ 6) = 65152 \div (2 ^ 6)
    \/ IsV4Mapped(g) /\ InUnsafeV4Range(EmbeddedV4(g))

InUnsafeRange(a) ==
    IF a.v = 4 THEN InUnsafeV4Range(a.octets) ELSE InUnsafeV6Range(a.segments)

\* C2: is_safe_ip returns false for every IPv4 address in 127.0.0.0/8,
\* 10.0.0.0/8, 172.16.0.0/12, 192.168.0.0/16, 169.254.0.0/16, 0.0.0.0/8,
\* 100.64.0.0/10 and for 255.255.255.255, for the IPv6 addresses ::1, ::,
\* fc00::/7 and fe80::/10, and for every IPv4-mapped IPv6 address whose
\* embedded IPv4 address is in one of those IPv4 ranges.
C2_UnsafeRangesRejected ==
    (ip_safe # <<>> /\ InUnsafeRange(ip)) => ip_safe = <<FALSE>>

\* An IPv4-mapped address embedding 172.31.0.1, the last /16 of
\* 172.16.0.0/12, has been checked and rejected.
C2_Witness ==
    /\ ip_safe = <<FALSE>>
    /\ ip = IpV6(<<0, 0, 0, 0, 0, 65535, 256 * 172 + 31, 1>>)

HostOnBlocklist(h) ==
    \/ h \in {h_localhost, h_v6loop, h_v6loop_bracket}
    \/ (Len(h) >= 4 /\ h[1] = "1" /\ h[2] = "2" /\ h[3] = "7" /\ h[4] = ".")

HttpScheme(u) == u.scheme \in {s_http, s_https}

\* C3: when the resolution of host:port fails for a URL with scheme
\* http/https and a host that is not on the string blocklist, is_safe_url
\* rejects the URL, and internet_ol and internet_yoz return the empty String
\* without sending a request.
C3_ResolutionFailureRejected ==
    (url.ok /\ HttpScheme(url) /\ url.host # <<>> /\ ~HostOnBlocklist(url.host[1]) /\ ~dns.ok)
        => /\ url_safe # <<>> => url_safe = <<FALSE>>
           /\ net_call \in {"internet_ol", "internet_yoz"} => (~net_sent /\ net_ret = <<empty_string>>)

\* What C4 requires of an accepted URL.
Acceptable(u, d) ==
    /\ u.ok
    /\ HttpScheme(u)
    /\ u.host # <<>>
    /\ ~HostOnBlocklist(u.host[1])
    /\ \A i \in 1..Len(d.addrs) : ~InUnsafeRange(d.addrs[i])

\* C4: is_safe_url accepts a URL only if its scheme is http or https, its
\* host is none of localhost, ::1, [::1] and does not start with "127.", and
\* every address the host resolves to is safe, wherever in the list it is;
\* internet_ol and internet_yoz send a request only for such a URL.
C4_AcceptedOnlyIfSafe ==
    /\ url_safe = <<TRUE>> => Acceptable(url, dns)
    /\ net_sent => Acceptable(url, dns)
    /\ (url_safe # <<>> /\ dns.ok /\ \E i \in 1..Len(dns.addrs) : ~is_safe_ip(dns.addrs[i])) => url_safe = <<FALSE>>

\* internet_ol was called on an http URL whose host resolves to a safe
\* address followed by an unsafe one, and sent nothing.
C4_Witness ==
    /\ net_call = "internet_ol"
    /\ ~net_sent
    /\ url.ok /\ HttpScheme(url) /\ url.host = <<h_localtest>>
    /\ dns = DnsOk(<<ip_8_8_8_8, ip_10_0_0_5>>)


(***************************************************************************)
(* Claims about the parser                                                 *)
(***************************************************************************)
\* The tokens with every toki replaced by takrorla.
TokiAsTakrorla(toks) ==
    [i \in DOMAIN toks |-> IF toks[i].k = "Toki" THEN Tok("Takrorla") ELSE toks[i]]

\* C6: a source that starts with toki parses to the statements that the
\* same source with takrorla in place of toki parses to, the first of which
\* is a Loop statement.
C6_TokiParsesAsTakrorla ==
    (pdone /\ tokens[1].k = "Toki")
        => /\ stmts = parse(TokiAsTakrorla(tokens)).stmts
           /\ Len(stmts) >= 1 /\ stmts[1].s = "Loop"

\* The tokens are n0 o1 n1 ... ok nk EOF with operators among + - * /.
IsArithInput(toks) ==
    /\ Len(toks) % 2 = 0
    /\ toks[Len(toks)] = EOF
    /\ \A i \in 1..(Len(toks) - 1) :
         IF i % 2 = 1 THEN toks[i].k = "Number"
         ELSE toks[i].k = "Operator" /\ toks[i].op \in ArithOps

\* The position of the last operator of ops in toks, or 0.
LastOperator(toks, ops) ==
    LET at == {i \in 1..Len(toks) : toks[i].k = "Operator" /\ toks[i].op \in ops}
    IN  IF at = {} THEN 0 ELSE CHOOSE i \in at : \A j \in at : j <= i

\* The tree of the conventional reading: the last + or - is the root; with
\* none, the last * or / is; with none, the input is a number.
RECURSIVE ConventionalTree(_)
ConventionalTree(toks) ==
    LET a == LastOperator(toks, {op_plus, op_minus})
        m == LastOperator(toks, {op_star, op_slash})
        i == IF a > 0 THEN a ELSE m
    IN  IF i = 0 THEN ENumber(toks[1].n)
        ELSE EBinaryOp(ConventionalTree(SubSeq(toks, 1, i - 1)), toks[i].op,
                       ConventionalTree(SubSeq(toks, i + 1, Len(toks))))

\* l op r over the integers, the quotient truncated; <<>> where a division
\* by zero leaves it undefined.
ConventionalApply(l, op, r) ==
    IF l = <<>> \/ r = <<>> THEN <<>>
    ELSE IF op = op_plus THEN <<l[1] + r[1]>>
    ELSE IF op = op_minus THEN <<l[1] - r[1]>>
    ELSE IF op = op_star THEN <<l[1] * r[1]>>
    ELSE IF r[1] = 0 THEN <<>>
    ELSE IF (l[1] < 0) # (r[1] < 0) THEN <<-(Abs(l[1]) \div Abs(r[1]))>>
    ELSE <<Abs(l[1]) \div Abs(r[1])>>

\* The value of a run of numbers joined by * and /, left to right from
\* position i with the value acc so far.
RECURSIVE ConventionalProduct(_, _, _)
ConventionalProduct(toks, i, acc) ==
    IF i > Len(toks) THEN acc
    ELSE ConventionalProduct(toks, i + 2, ConventionalApply(acc, toks[i].op, <<toks[i + 1].n>>))

\* The conventional value: the products between the + and - signs, added
\* and subtracted left to right.
RECURSIVE ConventionalValue(_)
ConventionalValue(toks) ==
    LET a == LastOperator(toks, {op_plus, op_minus})
        last == SubSeq(toks, a + 1, Len(toks))
        product == ConventionalProduct(last, 2, <<last[1].n>>)
    IN  IF a = 0 THEN product
        ELSE ConventionalApply(ConventionalValue(SubSeq(toks, 1, a - 1)), toks[a].op, product)

\* C8: an expression over numbers and + - * / without parentheses parses
\* to the tree in which * and / group tighter than + and - and operators of
\* one level group left to right, and where no operation of its evaluation
\* divides by zero or leaves the range of i64 the value is the conventional
\* one, in every build.
C8_PrecedenceAndAssociativity ==
    (pdone /\ IsArithInput(tokens))
        => /\ perrs = 0
           /\ stmts = <<SExpr(ConventionalTree(Front(tokens)))>>
           /\ LET c == ConventionalValue(Front(tokens))
              IN  ~evaluate_arith(stmts[1].expr, TRUE).panic
                    => /\ c # <<>>
                       /\ \A checks \in BOOLEAN :
                            evaluate_arith(stmts[1].expr, checks) = Val(NumberV(c[1]))

\* 10 - 3 - 2 has been parsed and its tree evaluates to 5.
C8_Witness ==
    /\ pdone
    /\ tokens = <<TNumber(10), TOperator(op_minus), TNumber(3), TOperator(op_minus), TNumber(2), EOF>>
    /\ Len(stmts) = 1
    /\ evaluate_arith(stmts[1].expr, TRUE) = Val(NumberV(5))

(***************************************************************************)
(* Claims about the interpreter                                            *)
(***************************************************************************)
\* The array v denotes with the element at position i replaced by x, and v
\* itself where i is no position of it.
WithElement(v, i, x) ==
    IF i >= 0 /\ i < Len(v.elems) THEN [v EXCEPT !.elems[i + 1] = x] ELSE v

\* C1: the step that stores a[i] = v leaves what every binding other than
\* the innermost binding of a denotes, and what every local of the call
\* stack denotes, as it was, whatever shares storage with a; the innermost
\* binding of a denotes the array it denoted with element i replaced by v
\* when a is an array and i a position of it, and what it denoted otherwise.
C1_StoreChangesOneBinding ==
    [][ev' = "AssignIndexStore" =>
          LET name == Top.node.name
              d == innermost(env_stack, name)
          IN  /\ Len(env_stack') = Len(env_stack)
              /\ \A s \in 1..Len(env_stack) :
                   /\ DOMAIN env_stack'[s] = DOMAIN env_stack[s]
                   /\ \A n \in DOMAIN env_stack[s] :
                        (s # d \/ n # name)
                            => Deref(env_stack'[s][n], heap') = Deref(env_stack[s][n], heap)
              /\ \A j \in 1..Len(stack') : \A k \in 1..Len(stack[j].vals) :
                   Deref(stack'[j].vals[k], heap') = Deref(stack[j].vals[k], heap)
              /\ d # 0 =>
                   Deref(env_stack'[d][name], heap') =
                       IF env_stack[d][name].t = "Array" /\ Top.vals[1].t = "Number"
                       THEN WithElement(Deref(env_stack[d][name], heap), Top.vals[1].n, Deref(ret[1], heap))
                       ELSE Deref(env_stack[d][name], heap)
       ]_vars

\* After a = [1, 2], b = a, a[0] = 9: b still names the cell both named,
\* with 1 and 2, and a names a clone with 9 and 2.
C1_Witness ==
    /\ ev = "AssignIndexStore"
    /\ Len(env_stack) = 1
    /\ {v_a, v_b} \subseteq DOMAIN env_stack[1]
    /\ env_stack[1][v_b] = ArrayV(1)
    /\ env_stack[1][v_a] = ArrayV(2)
    /\ heap = <<<<NumberV(1), NumberV(2)>>, <<NumberV(9), NumberV(2)>>>>

\* C5: the interpreter never aborts on a user program: every evaluation
\* yields a Value, Number-Number arithmetic on any operands included.
C5_NeverAborts == status # "panic"

\* A frame whose activation has pushed a scope that is still on env_stack.
HoldsScope(f) ==
    IF f.k = "stmt" THEN f.node.s = "For" /\ f.pc = 2
    ELSE IF f.k = "eval" THEN f.node.e = "Call" /\ f.pc = 1
    ELSE FALSE

\* The position in env_stack of the scope frame j of stk has pushed.
ScopeOf(stk, j) == 1 + Cardinality({o \in 1..j : HoldsScope(stk[o])})

\* What name is bound to in scope s: <<>> when unbound.
Binding(es, s, name, h) ==
    IF name \in DOMAIN es[s] THEN <<Deref(es[s][name], h)>> ELSE <<>>

InForBody(f) == f.k = "stmt" /\ f.node.s = "For" /\ f.pc = 2

\* C7: while the body of a for loop runs, no step changes what the loop
\* variable's name is bound to in a scope below the loop's own, or binds
\* it there; the name stays bound in the loop's scope; and the step that
\* ends the loop, normally or by a return, leaves exactly the scopes
\* there were before it.
C7_LoopVariableDoesNotLeak ==
    [][\A j \in 1..Len(stack) :
          InForBody(stack[j]) =>
              LET own == ScopeOf(stack, j)
                  var == stack[j].node.var_name
              IN  /\ own <= Len(env_stack)
                  /\ Len(env_stack') >= own - 1
                  /\ \A s \in 1..(own - 1) :
                       Binding(env_stack', s, var, heap') = Binding(env_stack, s, var, heap)
                  /\ Len(stack') < j => Len(env_stack') = own - 1
                  /\ Len(stack') >= j =>
                       /\ InForBody(stack'[j])
                       /\ Len(env_stack') >= own
                       /\ var \in DOMAIN env_stack'[own]
       ]_vars

\* x = 1, then uchun x ichida [3, 4] { x = 9  yoz x } has ended: 9 was
\* printed in the body and x is 1.
C7_Witness ==
    /\ ev = "ForEnd"
    /\ Len(env_stack) = 1
    /\ v_x \in DOMAIN env_stack[1]
    /\ env_stack[1][v_x] = NumberV(1)
    /\ out = <<<<"9">>, <<"9">>>>

\* The evaluation of l && r or l || r is about to take a step.
AtLogical(pc) ==
    /\ status = "running" /\ stack # <<>> /\ WithinBounds
    /\ Top.k = "eval" /\ Top.node.e = "BinaryOp" /\ Top.pc = pc
    /\ Top.node.op \in {op_and, op_or}

\* The step returns v and does nothing else.
ReturnsOnly(v) ==
    /\ stack' = Front(stack)
    /\ ret' = <<v>>
    /\ UNCHANGED <<env_stack, functions, heap, out, requests, status>>

\* C9: with l falsy, l && r returns Bool(false) in the step that follows
\* the evaluation of l, and with l truthy l || r returns Bool(true), the
\* right operand never being called and nothing else changing; in the
\* remaining cases the right operand is evaluated and the result is
\* Bool(truthy(r)).
C9_ShortCircuit ==
    [][/\ (AtLogical(1) /\ Top.node.op = op_and /\ ~is_truthy(ret[1])) => ReturnsOnly(BoolV(FALSE))
       /\ (AtLogical(1) /\ Top.node.op = op_or /\ is_truthy(ret[1])) => ReturnsOnly(BoolV(TRUE))
       /\ (AtLogical(1) /\ Top.node.op = op_and /\ is_truthy(ret[1]))
             => (Len(stack') = Len(stack) + 1 /\ stack'[Len(stack')] = EvalFrame(Top.node.right))
       /\ (AtLogical(1) /\ Top.node.op = op_or /\ ~is_truthy(ret[1]))
             => (Len(stack') = Len(stack) + 1 /\ stack'[Len(stack')] = EvalFrame(Top.node.right))
       /\ AtLogical(2) => ReturnsOnly(BoolV(is_truthy(ret[1])))
      ]_vars

\* yoz 0 && d(), with d a function that never returns, has evaluated its
\* operand to Bool(false) and is about to print it.
C9_Witness ==
    /\ ev = "BinaryShortCircuit"
    /\ ret = <<BoolV(FALSE)>>
    /\ f_d \in DOMAIN functions
    /\ Top.k = "stmt"
    /\ Top.node.s = "Print"
    /\ Top.node.expr = Bin(Num(0), op_and, Call0(f_d))
    /\ out = <<>>

\* qosh is about to return for an array a and a value x.
AtQosh ==
    /\ status = "running" /\ stack # <<>> /\ WithinBounds
    /\ Top.k = "eval" /\ Top.node.e = "Call" /\ Top.pc = 0
    /\ Top.node.name = n_qosh
    /\ Len(CallArgs) = Len(Top.node.args)
    /\ Len(CallArgs) >= 2
    /\ CallArgs[1].t = "Array"

\* C10: qosh(a, x) returns an array with a cell of its own whose length is
\* uzunlik(a) + 1, whose first uzunlik(a) elements are those of a and whose
\* last is x; every array there was, a included, and every binding is as
\* before.
C10_QoshAppendsToCopy ==
    [][AtQosh =>
          LET a == CallArgs[1]
              x == CallArgs[2]
              n == uzunlik(<<a>>, heap).n
          IN  /\ ret' # <<>>
              /\ ret'[1].t = "Array"
              /\ ret'[1].rc \notin DOMAIN heap
              /\ ret'[1].rc \in DOMAIN heap'
              /\ uzunlik(ret', heap') = NumberV(n + 1)
              /\ \A i \in 1..n : heap'[ret'[1].rc][i] = heap[a.rc][i]
              /\ heap'[ret'[1].rc][n + 1] = x
              /\ \A c \in DOMAIN heap : heap'[c] = heap[c]
              /\ env_stack' = env_stack
       ]_vars

\* a = [1, 2], then qosh(a, 3) has returned [1, 2, 3] in a second cell and
\* a still names the first, with 1 and 2.
C10_Witness ==
    /\ ev = "CallQosh"
    /\ ret = <<ArrayV(2)>>
    /\ heap = <<<<NumberV(1), NumberV(2)>>, <<NumberV(1), NumberV(2), NumberV(3)>>>>
    /\ v_a \in DOMAIN env_stack[1]
    /\ env_stack[1][v_a] = ArrayV(1)

(***************************************************************************)
(* son and matn applied in sequence (interpreter.rs:325-342): the value    *)
(* conv_in is formatted by matn and the text is parsed back by son         *)
(***************************************************************************)
ConvTexts ==
    { <<"7">>, <<" ", "7", "\n">>, <<"+", "7">>, <<"-", "7">>, <<"-", "0">>, <<"-">>, <<>>,
      <<"9", "9">>, <<"-", "9", "9">>, <<"7", "a">>, <<"-", " ", "7">>, <<"\t", "-", "1", "0", " ">> }

ConvInputs ==
    { NumberV(n) : n \in MinInt..MaxInt } \cup { StringV(cs) : cs \in ConvTexts }
        \cup { BoolV(b) : b \in BOOLEAN }

InitConv ==
    /\ \E v \in ConvInputs : conv_in = <<v>>
    /\ conv_text = <<>>
    /\ conv_out = <<>>
    /\ IdleIp /\ IdleUrl /\ IdleParser /\ IdleInterp /\ IdleLexer

\* matn(conv_in)
ConvMatn ==
    /\ conv_text = <<>>
    /\ conv_text' = <<matn(conv_in, <<>>)>>
    /\ UNCHANGED <<conv_in, conv_out, ivars, nvars, pvars, lvars>>

\* son(matn(conv_in))
ConvSon ==
    /\ conv_text # <<>>
    /\ conv_out = <<>>
    /\ conv_out' = <<son(conv_text)>>
    /\ UNCHANGED <<conv_in, conv_text, ivars, nvars, pvars, lvars>>

NextConv == ConvMatn \/ ConvSon
SpecConv == InitConv /\ [][NextConv]_vars

(***************************************************************************)
(* Lexer (lexer.rs:29-199): input is the Vec<char>, positions count from 0 *)
(* as in the source, so that the character at position p is inp[p + 1].    *)
(* Each read_* operator yields the token and the position it leaves.       *)
(***************************************************************************)
lowercase == {"a", "b", "c", "d", "e", "f", "g", "h", "i", "j", "k", "l", "m", "n", "o", "p", "q", "r", "s", "t", "u", "v", "w", "x", "y", "z"}
uppercase == {"A", "B", "C", "D", "E", "F", "G", "H", "I", "J", "K", "L", "M", "N", "O", "P", "Q", "R", "S", "T", "U", "V", "W", "X", "Y", "Z"}
is_ascii_digit(c) == IsDigit(c)
is_ascii_alphanumeric(c) == c \in lowercase \/ c \in uppercase \/ is_ascii_digit(c)

Read(tok, p, ok) == [tok |-> tok, pos |-> p, ok |-> ok]

\* The characters an escape pushes (lexer.rs:116-126).
escape(c) ==
    IF c = "n" THEN <<"\n">>
    ELSE IF c = "r" THEN <<"\r">>
    ELSE IF c = "t" THEN <<"\t">>
    ELSE IF c = "\"" THEN <<"\"">>
    ELSE IF c = "\\" THEN <<"\\">>
    ELSE <<"\\", c>>

\* The loop of read_string without the test that a character follows the
\* backslash: the index is then out of bounds and the read aborts.
RECURSIVE read_string_loop_unchecked(_, _, _)
read_string_loop_unchecked(inp, p, str) ==
    IF p < Len(inp) /\ inp[p + 1] # "\""
    THEN IF inp[p + 1] = "\\"
         THEN IF p + 1 < Len(inp)
              THEN read_string_loop_unchecked(inp, p + 2, str \o escape(inp[p + 2]))
              ELSE Read(TStringLiteral(str), p + 1, FALSE)
         ELSE read_string_loop_unchecked(inp, p + 1, Append(str, inp[p + 1]))
    ELSE Read(TStringLiteral(str), p + 1, TRUE)

\* The loop of read_string and the skip of the closing quote
\* (lexer.rs:113-133); every index it uses is below the length.
RECURSIVE read_string_loop(_, _, _)
read_string_loop(inp, p, str) ==
    IF p < Len(inp) /\ inp[p + 1] # "\""
    THEN IF inp[p + 1] = "\\" /\ p + 1 < Len(inp)
         THEN read_string_loop(inp, p + 2, str \o escape(inp[p + 2]))
         ELSE read_string_loop(inp, p + 1, Append(str, inp[p + 1]))
    ELSE Read(TStringLiteral(str), p + 1, TRUE)

read_string(inp, p) == read_string_loop(inp, p + 1, <<>>)

RECURSIVE digits_from(_, _)
digits_from(inp, p) ==
    IF p < Len(inp) /\ is_ascii_digit(inp[p + 1]) THEN <<inp[p + 1]>> \o digits_from(inp, p + 1) ELSE <<>>

\* s.parse().unwrap_or(0): 0 for a number beyond the range.
read_number(inp, p) ==
    LET str == digits_from(inp, p)
    IN  Read(TNumber(IF parse_i64(str) = <<>> THEN 0 ELSE parse_i64(str)[1]), p + Len(str), TRUE)

RECURSIVE identifier_from(_, _)
identifier_from(inp, p) ==
    IF p < Len(inp) /\ (is_ascii_alphanumeric(inp[p + 1]) \/ inp[p + 1] = "_" \/ inp[p + 1] = "'")
    THEN <<inp[p + 1]>> \o identifier_from(inp, p + 1)
    ELSE <<>>

keyword(str) ==
    IF str = <<"a", "g", "a", "r">> THEN <<Tok("Agar")>>
    ELSE IF str = <<"t", "o", "k", "i">> THEN <<Tok("Toki")>>
    ELSE IF str = <<"y", "o", "z">> THEN <<Tok("Yoz")>>
    ELSE IF str = <<"t", "a", "k", "r", "o", "r", "l", "a">> THEN <<Tok("Takrorla")>>
    ELSE IF str = <<"s", "o", "'", "r", "a">> THEN <<Tok("Sora")>>
    ELSE IF str = <<"f", "u", "n", "k", "s", "i", "y", "a">> THEN <<Tok("Funksiya")>>
    ELSE IF str = <<"q", "a", "y", "t", "a", "r">> THEN <<Tok("Qaytar")>>
    ELSE IF str = <<"u", "c", "h", "u", "n">> THEN <<Tok("Uchun")>>
    ELSE IF str = <<"i", "c", "h", "i", "d", "a">> THEN <<Tok("Ichida")>>
    ELSE <<>>

read_identifier(inp, p) ==
    LET str == identifier_from(inp, p)
    IN  Read(IF keyword(str) # <<>> THEN keyword(str)[1] ELSE TIdentifier(str), p + Len(str), TRUE)

\* read_operator (lexer.rs:170-198)
read_operator(inp, p) ==
    LET current == inp[p + 1]
        more == p + 1 < Len(inp)
    IN  IF more /\ current = "&" /\ inp[p + 2] = "&" THEN Read(Tok("And"), p + 2, TRUE)
        ELSE IF more /\ current = "|" /\ inp[p + 2] = "|" THEN Read(Tok("Or"), p + 2, TRUE)
        ELSE IF more /\ inp[p + 2] = "=" THEN Read(TOperator(<<current, "=">>), p + 2, TRUE)
        ELSE IF current = "!" THEN Read(Tok("Not"), p + 1, TRUE)
        ELSE Read(TOperator(<<current>>), p + 1, TRUE)

\* The position the comment loop stops at (lexer.rs:61-63).
RECURSIVE skip_comment(_, _)
skip_comment(inp, p) ==
    IF p < Len(inp) /\ inp[p + 1] # "\n" THEN skip_comment(inp, p + 1) ELSE p

operator_chars == {"=", "!", ">", "<", "+", "-", "*", "&", "|"}

punctuation(c) ==
    IF c = "{" THEN <<Tok("LBrace")>>
    ELSE IF c = "}" THEN <<Tok("RBrace")>>
    ELSE IF c = "(" THEN <<Tok("LParen")>>
    ELSE IF c = ")" THEN <<Tok("RParen")>>
    ELSE IF c = "[" THEN <<Tok("LBracket")>>
    ELSE IF c = "]" THEN <<Tok("RBracket")>>
    ELSE IF c = "," THEN <<Tok("Comma")>>
    ELSE <<>>

\* The loop of tokenize is at a character.
Scanning == lex_status = "scanning" /\ lex_pos < Len(input)
Current == input[lex_pos + 1]
StartsComment == Current = "/" /\ lex_pos + 1 < Len(input) /\ input[lex_pos + 2] = "/"

\* What a step of the lexer leaves alone.
LexStep == UNCHANGED <<input, ivars, nvars, pvars, cvars>>

\* tokens.push(self.read_*()), or the abort of the read.
Push(read) ==
    /\ lex_tokens' = IF read.ok THEN Append(lex_tokens, read.tok) ELSE lex_tokens
    /\ lex_pos' = read.pos
    /\ lex_status' = IF read.ok THEN lex_status ELSE "panic"
    /\ LexStep

LexWhitespace ==
    /\ Scanning
    /\ Current \in {" ", "\t", "\r", "\n"}
    /\ lex_pos' = lex_pos + 1
    /\ UNCHANGED <<lex_tokens, lex_status>>
    /\ LexStep

LexString == Scanning /\ Current = "\"" /\ Push(read_string(input, lex_pos))

LexNumber == Scanning /\ is_ascii_digit(Current) /\ Push(read_number(input, lex_pos))

LexIdentifier ==
    /\ Scanning
    /\ (Current \in lowercase \/ Current \in uppercase \/ Current = "_")
    /\ Push(read_identifier(input, lex_pos))

LexComment ==
    /\ Scanning
    /\ StartsComment
    /\ lex_pos' = skip_comment(input, lex_pos)
    /\ UNCHANGED <<lex_tokens, lex_status>>
    /\ LexStep

LexOperator ==
    /\ Scanning
    /\ \/ Current = "/" /\ ~StartsComment
       \/ Current \in operator_chars
    /\ Push(read_operator(input, lex_pos))

LexPunctuation ==
    /\ Scanning
    /\ punctuation(Current) # <<>>
    /\ lex_tokens' = Append(lex_tokens, punctuation(Current)[1])
    /\ lex_pos' = lex_pos + 1
    /\ UNCHANGED lex_status
    /\ LexStep

LexUnknown ==
    /\ Scanning
    /\ Current \notin {" ", "\t", "\r", "\n", "\"", "_", "/"}
    /\ ~is_ascii_alphanumeric(Current)
    /\ Current \notin operator_chars
    /\ punctuation(Current) = <<>>
    /\ lex_pos' = lex_pos + 1
    /\ UNCHANGED <<lex_tokens, lex_status>>
    /\ LexStep

\* tokens.push(Token::EOF) after the loop (lexer.rs:106-107).
LexEnd ==
    /\ lex_status = "scanning"
    /\ lex_pos >= Len(input)
    /\ lex_tokens' = Append(lex_tokens, EOF)
    /\ lex_status' = "done"
    /\ UNCHANGED lex_pos
    /\ LexStep

MaxInput == 3
LexAlphabet == {" ", "\n", "\"", "\\", "a", "/", "&", "|", "="}
LexSamples ==
    { <<"s", "o", "'", "r", "a", " ", "&", "&", " ", "|", "|", " ", "!", " ", "/", "/", " ", "c", "o", "m", "m", "e", "n", "t">>,
      <<"!", "=", " ", "!", " ", "=", "=", " ", "&", "&">>,
      <<"f", "u", "n", "k", "s", "i", "y", "a", " ", "q", "o", "s", "h", "(", "a", ",", " ", "b", ")", " ", "{", " ", "q", "a", "y", "t", "a", "r", " ", "a", " ", "+", " ", "b", " ", "}">>,
      <<"u", "c", "h", "u", "n", " ", "x", " ", "i", "c", "h", "i", "d", "a", " ", "[", "1", ",", " ", "2", "]", " ", "{", " ", "y", "o", "z", " ", "x", " ", "}">>,
      <<"a", "g", "a", "r", " ", "t", "o", "k", "i", " ", "t", "a", "k", "r", "o", "r", "l", "a">>,
      <<"a", " ", "&", " ", "b">>,
      <<"a", " ", "|", " ", "b">>,
      <<"x", " ", "&", "=", " ", "1">>,
      <<"a", " ", "/", "/", " ", "b", "\n", "c">>,
      <<"1", " ", "/", " ", "2">>,
      <<"\"", "a", "\\", "t", "b", "\\", "\"", "c", "\\", "\\", "\\", "q", "\"", " ", "9", "9", "9", "9", "9">>,
      <<"a", " ", "#", " ", "$", "'", "b">>,
      <<"x", " ", "<", "=", " ", "7", " ", ">", "=", " ", "y", "_", "1", " ", "-", " ", "3", " ", "*", " ", "4">> }

\* Lexer::new (lexer.rs:35-40)
InitLex ==
    /\ \/ input \in LexSamples
       \/ \E n \in 0..MaxInput : \E cs \in [1..n -> LexAlphabet] : input = [i \in 1..n |-> cs[i]]
    /\ lex_pos = 0
    /\ lex_tokens = <<>>
    /\ lex_status = "scanning"
    /\ IdleIp /\ IdleUrl /\ IdleParser /\ IdleInterp /\ IdleConv

NextLex ==
    \/ LexWhitespace \/ LexString \/ LexNumber \/ LexIdentifier \/ LexComment
    \/ LexOperator \/ LexPunctuation \/ LexUnknown \/ LexEnd
SpecLex == InitLex /\ [][NextLex]_vars
\* tokenize is one sequential loop that runs to its end once called.
SpecLexLive == SpecLex /\ WF_vars(NextLex)

(***************************************************************************)
(* Claims about son and matn                                               *)
(***************************************************************************)
\* C11: for every Number n of the integer range, negative numbers and both
\* extreme values included, son(matn(n)) is Number(n).
C11_SonMatnRoundTrip ==
    (conv_out # <<>> /\ conv_in[1].t = "Number") => conv_out[1] = conv_in[1]

\* The round trip has been made for the least number of the range.
C11_Witness ==
    /\ conv_out # <<>>
    /\ conv_in[1] = NumberV(MinInt)
    /\ conv_text[1] = StringV(<<"-">> \o NatDigits(-MinInt))

(***************************************************************************)
(* Claims about calls                                                      *)
(***************************************************************************)
NativeStep(name) ==
    IF name = n_son THEN "CallSon"
    ELSE IF name = n_matn THEN "CallMatn"
    ELSE IF name = n_turi THEN "CallTuri"
    ELSE IF name = n_uzunlik THEN "CallUzunlik"
    ELSE IF name = n_qosh THEN "CallQosh"
    ELSE IF name = n_internet_ol THEN "NativeInternetOl"
    ELSE "NativeInternetYoz"

\* The frame at depth i waits for the body of a function called name.
RunsBodyOf(stk, i, name) ==
    stk[i].k = "eval" /\ stk[i].node.e = "Call" /\ stk[i].pc = 1 /\ stk[i].node.name = name

\* C12: a call of son, matn, turi, uzunlik, qosh, internet_ol or
\* internet_yoz is answered by the built-in, whatever the number of
\* arguments and whether or not a user function of that name is defined: the
\* step that follows the arguments is the built-in's, it returns a value and
\* pushes no scope, and no body of a user function of such a name is run.
C12_BuiltinPriority ==
    [][/\ (ArgsDone /\ Top.node.name \in NativeNames) =>
            /\ ev' = NativeStep(Top.node.name)
            /\ stack' = Front(stack)
            /\ Len(ret') = 1
            /\ env_stack' = env_stack
       /\ \A i \in 1..Len(stack'), name \in NativeNames : ~RunsBodyOf(stack', i, name)]_vars

\* Every native name has been called, with arguments, after a user function
\* of the same name was defined; here it is internet_yoz.
C12_Witness ==
    /\ ev = "NativeInternetYoz"
    /\ n_internet_yoz \in DOMAIN functions
    /\ status = "running"

\* C13: a call of a user function binds, in a new scope, each parameter to
\* its argument and each parameter without an argument to Number(0), and
\* binds nothing else, so that arguments beyond the parameters are ignored;
\* a body that ends without a return makes the call yield Number(0); a call
\* of a name that is neither native nor defined yields Number(0) and pushes
\* no scope.
C13_CallFrames ==
    [][/\ (ArgsDone /\ ev' = "CallUser") =>
            LET params == functions[Top.node.name].params
                scope == Last(env_stack')
            IN  /\ Len(env_stack') = Len(env_stack) + 1
                /\ Front(env_stack') = env_stack
                /\ DOMAIN scope = {params[i] : i \in 1..Len(params)}
                /\ \A i \in 1..Len(params) :
                      (\A j \in 1..Len(params) : params[j] = params[i] => j <= i) =>
                          scope[params[i]] = IF i <= Len(CallArgs) THEN CallArgs[i] ELSE NumberV(0)
       /\ (InEval("Call", 1) /\ ret = <<NoneR>> /\ ev' = "CallReturn") => ret' = <<NumberV(0)>>
       /\ (ArgsDone /\ Top.node.name \notin NativeNames /\ Top.node.name \notin DOMAIN functions) =>
            /\ ret' = <<NumberV(0)>>
            /\ stack' = Front(stack)
            /\ env_stack' = env_stack]_vars

\* k(a, b) has been called with one argument: b is bound to Number(0).
C13_Witness ==
    /\ ev = "CallUser"
    /\ Len(stack) > 1
    /\ stack[Len(stack) - 1].node.name = f_k
    /\ Len(stack[Len(stack) - 1].vals) = 1
    /\ Last(env_stack) = [n \in {v_a, v_b} |-> IF n = v_a THEN NumberV(3) ELSE NumberV(0)]

(***************************************************************************)
(* Claims about the scope stack                                            *)
(***************************************************************************)
\* The scopes the frames of stk have pushed and not yet popped.
ScopesHeld(stk) == Cardinality({i \in 1..Len(stk) : HoldsScope(stk[i])})

\* C14: env_stack always holds at least one scope, the first being the
\* global one (where main has bound raqam); its depth is one more than the
\* number of loop bodies and function bodies being run, so that the step
\* that ends a statement, by a return out of loops and calls as well, finds
\* the depth the statement started with; between two top-level statements
\* and at the end of the run the depth is 1.
C14_ScopeStackBalanced ==
    /\ [](/\ Len(env_stack) >= 1
          /\ v_raqam \in DOMAIN env_stack[1]
          /\ Len(env_stack) = 1 + ScopesHeld(stack)
          /\ (Len(stack) <= 1 => Len(env_stack) = 1))
    /\ [][(stack # <<>> /\ Top.k = "stmt" /\ stack' = Front(stack)) =>
              Len(env_stack') = 1 + ScopesHeld(Front(stack))]_vars

\* A statement of a function body has ended by a return from inside a loop,
\* and the scope of the call is the only one left above the global scope.
C14_Witness ==
    /\ ev = "ForReturn"
    /\ Len(env_stack) = 2
    /\ \E i \in 1..Len(stack) : stack[i].k = "eval" /\ HoldsScope(stack[i])

\* The scopes of es that bind name, and the greatest of a set of them.
Greatest(ds) == CHOOSE d \in ds : \A o \in ds : o <= d
WrittenScope(es, name) ==
    IF ScopesWith(es, name) # {} THEN Greatest(ScopesWith(es, name)) ELSE Len(es)

\* C15: the step of an assignment name = v that calls set_variable writes
\* one binding: that of name in the innermost scope that binds name, be it
\* the scope of a caller or the global one, or, if none binds it, a new
\* binding in the innermost scope; the number of scopes, the keys of every
\* scope but for the new binding, every other binding and the storage of the
\* arrays are as before. In particular a binding of name below the written
\* scope, such as the caller's variable a parameter hides, is as before.
C15_SetVariableWritesOneBinding ==
    [][(InStmt("Assign", 1) /\ ev' = "AssignSet") =>
          LET name == Top.node.name
              w == WrittenScope(env_stack, name)
          IN  /\ Len(env_stack') = Len(env_stack)
              /\ heap' = heap
              /\ DOMAIN env_stack'[w] = DOMAIN env_stack[w] \cup {name}
              /\ env_stack'[w][name] = ret[1]
              /\ \A d \in 1..Len(env_stack) :
                    /\ d # w => env_stack'[d] = env_stack[d]
                    /\ \A n \in DOMAIN env_stack[d] : (d # w \/ n # name) => env_stack'[d][n] = env_stack[d][n]]_vars

\* Inside k(x), called where the global scope binds x to 1, x has been
\* assigned 2: the parameter holds 2 and the global x still holds 1.
C15_Witness ==
    /\ ev = "AssignSet"
    /\ Len(env_stack) = 2
    /\ v_x \in DOMAIN env_stack[1] /\ env_stack[1][v_x] = NumberV(1)
    /\ v_x \in DOMAIN env_stack[2] /\ env_stack[2][v_x] = NumberV(2)

(***************************************************************************)
(* Claims about the error paths of name[idx] = v                           *)
(***************************************************************************)
\* name[idx] = v cannot be done: name is unbound, or what its innermost
\* binding holds is no Array, or idx is no Number, or idx is no position of
\* the array.
StoreFails(es, h, name, index_val) ==
    \/ ScopesWith(es, name) = {}
    \/ es[Greatest(ScopesWith(es, name))][name].t # "Array"
    \/ index_val.t # "Number"
    \/ index_val.n < 0
    \/ index_val.n >= Len(h[es[Greatest(ScopesWith(es, name))][name].rc])

\* C16: when name[idx] = v cannot be done, the step reports an error and
\* leaves the number of scopes, the names every scope binds and the value
\* every binding denotes, that of name and of every array that shares its
\* storage included, as they were.
C16_FailedStoreChangesNothing ==
    [][(InStmt("AssignIndex", 2) /\ ev' = "AssignIndexStore"
            /\ StoreFails(env_stack, heap, Top.node.name, Top.vals[1])) =>
          /\ assign_index(env_stack, stack, ret, heap, Top.node.name, Top.vals[1], ret[1]).err
          /\ Len(env_stack') = Len(env_stack)
          /\ \A d \in 1..Len(env_stack) :
                /\ DOMAIN env_stack'[d] = DOMAIN env_stack[d]
                /\ \A n \in DOMAIN env_stack[d] :
                      Deref(env_stack'[d][n], heap') = Deref(env_stack[d][n], heap)]_vars

\* After a = [1, 2], b = a, a[2] = 9: the index is the length, a and b
\* both still denote [1, 2].
C16_Witness ==
    /\ ev = "AssignIndexStore"
    /\ Len(env_stack) = 1
    /\ {v_a, v_b} \subseteq DOMAIN env_stack[1]
    /\ env_stack[1][v_a].t = "Array" /\ env_stack[1][v_b].t = "Array"
    /\ heap[env_stack[1][v_a].rc] = <<NumberV(1), NumberV(2)>>
    /\ heap[env_stack[1][v_b].rc] = <<NumberV(1), NumberV(2)>>
    /\ Len(stack) = 1 /\ Top.pc = 3 /\ Top.body[3] = SAssignIndex(v_a, Num(2), Num(9))

(***************************************************************************)
(* Claims about the lexer                                                  *)
(***************************************************************************)
EofCount(toks) == Cardinality({i \in 1..Len(toks) : toks[i] = EOF})

\* C17: tokenize ends for every input and does not abort: every turn of
\* its loop moves the position forward by one character or more, an
\* unterminated string, a backslash at the end and a / at the end included,
\* the loop is left, and the token sequence then returned holds EOF once,
\* as its last token.
C17_TokenizeTerminates ==
    /\ [][Scanning => lex_pos' >= lex_pos + 1]_vars
    /\ [](lex_status # "panic")
    /\ [](lex_status = "done" => (Last(lex_tokens) = EOF /\ EofCount(lex_tokens) = 1))
    /\ [](lex_status # "done" => EofCount(lex_tokens) = 0)
    /\ <>(lex_status = "done")

\* The input "\ , an unterminated string that ends in a backslash, has
\* been tokenized: a string token holding the backslash, then EOF.
C17_Witness ==
    /\ lex_status = "done"
    /\ input = <<"\"", "\\">>
    /\ lex_tokens = <<TStringLiteral(<<"\\">>), EOF>>
    /\ lex_pos = 3

\* C19: && gives the token And and || the token Or, and an & or | that is
\* not followed by the same character gives no token: the step that reads it
\* leaves the tokens as they are.
C19_LoneAmpersandSkipped ==
    [][(Scanning /\ Current \in {"&", "|"}) =>
          IF lex_pos + 1 < Len(input) /\ input[lex_pos + 2] = Current
          THEN lex_tokens' = Append(lex_tokens, IF Current = "&" THEN Tok("And") ELSE Tok("Or"))
          ELSE lex_tokens' = lex_tokens]_vars

(***************************************************************************)
(* Claims about the addresses is_safe_ip accepts                           *)
(***************************************************************************)
\* C18: is_safe_ip returns true for every address outside the listed
\* ranges: an IPv4 address in none of the eight IPv4 ranges, an IPv6 address
\* that is not ::1, not ::, not in fc00::/7, not in fe80::/10 and not
\* IPv4-mapped, and an IPv4-mapped address whose embedded IPv4 address is in
\* none of the eight ranges.
C18_SafeOutsideRanges ==
    (ip_safe # <<>> /\ ~InUnsafeRange(ip)) => ip_safe = <<TRUE>>

(***************************************************************************)
(* Claims about the progress of the parser                                 *)
(***************************************************************************)
\* An iteration that starts at cursor p, of the loop of parse or of the
\* loop of parse_block, ends at a greater cursor: parse_stmt succeeds and
\* has consumed a token, or fails and the advance that follows consumes one.
IterationAdvances(toks, p) ==
    LET r == production("parse_stmt", toks, p, 0, <<>>)
    IN  /\ r.pos >= p
        /\ r.pos <= Len(toks)
        /\ IF r.ok THEN r.pos >= p + 1 ELSE advance(toks, r.pos) >= p + 1

\* C20: parse ends on every token sequence: every iteration of its loop
\* moves the cursor forward by one token or more, so does every iteration
\* the loop of parse_block can start (at any cursor where the token is
\* neither a closing brace nor EOF; the tokens never change, so this is
\* stated of the first state), the cursor is never beyond the number of
\* tokens, and the loop is left.
C20_ParseTerminates ==
    /\ [][(~pdone /\ peek(tokens, pos) # EOF) => (pos' >= pos + 1 /\ IterationAdvances(tokens, pos))]_vars
    /\ [](pos <= Len(tokens))
    /\ \A p \in 0..Len(tokens) :
          peek(tokens, p).k \notin {"RBrace", "EOF"} => IterationAdvances(tokens, p)
    /\ <>pdone

\* toki x { toki x { } } has been parsed to its end: parse_stmt failed at
\* the top level and inside the block it never got to, every failure was
\* followed by a skip.
C20_Witness ==
    /\ pdone
    /\ perrs >= 2
    /\ pos = Len(tokens) - 1
    /\ tokens[1] = Tok("Toki")
    /\ \E i \in 2..Len(tokens) : tokens[i] = Tok("Toki")

(***************************************************************************)
(* The tokens a program stands for.  Brackets, commas and EOF only group;  *)
(* every other token of a well-formed input is found in exactly one node.  *)
(***************************************************************************)
Grouping == {"LParen", "RParen", "LBrace", "RBrace", "LBracket", "RBracket", "Comma", "EOF"}

Significant(toks) == Cardinality({i \in 1..Len(toks) : toks[i].k \notin Grouping})

RECURSIVE Words(_, _)
Words(x, many) ==
    IF many THEN (IF x = <<>> THEN 0 ELSE Words(Head(x), FALSE) + Words(Tail(x), TRUE))
    ELSE IF "e" \in DOMAIN x THEN
        CASE x.e \in {"Number", "StringLiteral", "Identifier", "Input"} -> 1
          [] x.e = "BinaryOp" -> 1 + Words(x.left, FALSE) + Words(x.right, FALSE)
          [] x.e = "UnaryOp" -> 1 + Words(x.right, FALSE)
          [] x.e = "Call" -> 1 + Words(x.args, TRUE)
          [] x.e = "Array" -> Words(x.elements, TRUE)
          [] x.e = "Index" -> Words(x.target, FALSE) + Words(x.index, FALSE)
    ELSE
        CASE x.s \in {"Print", "Return"} -> 1 + Words(x.expr, FALSE)
          [] x.s \in {"If", "Loop"} -> 1 + Words(x.cond, FALSE) + Words(x.body, TRUE)
          [] x.s = "For" -> 3 + Words(x.collection, FALSE) + Words(x.body, TRUE)
          [] x.s = "Assign" -> 2 + Words(x.expr, FALSE)
          [] x.s = "AssignIndex" -> 2 + Words(x.index, FALSE) + Words(x.value, FALSE)
          [] x.s = "Function" -> 2 + Len(x.params) + Words(x.body, TRUE)
          [] x.s = "Expr" -> Words(x.expr, FALSE)

\* C21: parse errors are always reported: when parse ends having written no
\* message, no production returned "nothing", at the top level or inside a
\* block, so every token of the input that is not a bracket is found in
\* the program.
C21_ParseErrorsReported ==
    (pdone /\ perrs = 0) => Words(stmts, TRUE) = Significant(tokens)

(***************************************************************************)
(* Return                                                                  *)
(***************************************************************************)
\* The activation below the top frame has returned Some(value).
Returning(r) == r # <<>> /\ r[1].t = "Some"

\* The frames a returned value passes: execute, an If, Loop or For whose
\* body has run, and the call of a user function.
Propagates(f) ==
    \/ f.k = "execute"
    \/ f.k = "stmt" /\ f.node.s \in {"If", "Loop", "For"} /\ f.pc = 2
    \/ f.k = "eval" /\ f.node.e = "Call" /\ f.pc = 1

\* C22: once a Return statement has executed, the value is only handed
\* outward: the frame it reaches is a block, an If, Loop or For after its
\* body, or a call, and the next step ends that frame without starting a
\* statement, evaluating a condition or binding an element (nothing is
\* printed, stored or defined); a For and a call pop the scope they
\* pushed; the call yields the value, every other frame passes it on; at
\* the top level execute has returned and the program ends.
C22_ReturnPropagates ==
    /\ [](Running /\ Returning(ret) => Propagates(Top))
    /\ [][(Running /\ Returning(ret)) =>
            /\ stack' = Front(stack)
            /\ out' = out /\ heap' = heap /\ functions' = functions /\ status' = status
            /\ env_stack' = IF HoldsScope(Top) THEN Front(env_stack) ELSE env_stack
            /\ ret' = IF Top.k = "eval" THEN <<ret[1].v>> ELSE ret]_vars
    /\ [][(status = "running" /\ stack = <<>> /\ WithinBounds) =>
            (status' = "done" /\ out' = out /\ env_stack' = env_stack)]_vars

\* g() has returned 3 from inside its for, loop and if, yoz g() has printed
\* it, and the return at the top level has ended execute from inside the
\* same constructs: nothing else was printed and only the global scope is
\* left.
C22_Witness ==
    /\ status = "running"
    /\ stack = <<>>
    /\ Returning(ret)
    /\ ret[1].v = NumberV(7)
    /\ ev = "ExecuteReturn"
    /\ out = <<Display(NumberV(3), heap)>>
    /\ Len(env_stack) = 1

(***************************************************************************)
(* The collection of a for loop                                            *)
(***************************************************************************)
\* The frame of the for loop whose body the last step has started.
Started(stk) == stk[Len(stk) - 1]

\* C23: a for loop iterates over the array as it was when the loop
\* started.  While the loop runs, no step (a store into the variable the
\* collection came from and an assignment to it included) changes the
\* array the loop holds or what its elements denote; iteration i binds the
\* loop variable to element i of that array and the loop ends after as
\* many iterations as it has elements; and what the body did to the
\* variable stays: the steps that start the next iteration or end the loop
\* leave the heap and every enclosing scope as the body left them.
C23_ForIteratesSnapshot ==
    /\ [][\A j \in 1..Len(stack) :
            (InForBody(stack[j]) /\ j <= Len(stack') /\ InForBody(stack'[j])) =>
                /\ stack'[j].vals = stack[j].vals
                /\ Deref(stack'[j].vals[1], heap') = Deref(stack[j].vals[1], heap)
                /\ stack'[j].i \in {stack[j].i, stack[j].i + 1}]_vars
    /\ [][ev' = "ForFirst" =>
            /\ Started(stack').vals = <<ret[1]>>
            /\ Started(stack').i = 1
            /\ Last(env_stack') = Insert(EmptyMap, Top.node.var_name, heap[ret[1].rc][1])]_vars
    /\ [][ev' = "ForNext" =>
            /\ Started(stack').i = Top.i + 1
            /\ Top.i + 1 <= Len(heap[Top.vals[1].rc])
            /\ Last(env_stack') = Insert(EmptyMap, Top.node.var_name, heap[Top.vals[1].rc][Top.i + 1])]_vars
    /\ [][ev' = "ForEnd" => Top.i = Len(heap[Top.vals[1].rc])]_vars
    /\ [][ev' \in {"ForNext", "ForEnd", "ForReturn"} =>
            /\ heap' = heap
            /\ \A s \in 1..(Len(env_stack) - 1) : env_stack'[s] = env_stack[s]]_vars

\* a = [1, 2]  uchun e ichida a { a[1] = 9  yoz e }  yoz a has printed 1, 2
\* and [1, 9]: the second iteration bound the 2 the array had when the
\* loop started, and a shows the store after the loop.
C23_Witness ==
    /\ status = "done"
    /\ v_a \in DOMAIN env_stack[1]
    /\ env_stack[1][v_a].t = "Array"
    /\ out = <<Display(NumberV(1), heap), Display(NumberV(2), heap), Display(env_stack[1][v_a], heap)>>
    /\ Deref(env_stack[1][v_a], heap) = [t |-> "Array", elems |-> <<NumberV(1), NumberV(9)>>]

(***************************************************************************)
(* The scope of an iteration                                               *)
(***************************************************************************)
\* The last scope of env_stack is the scope of an iteration: of the frames
\* of stk that hold a scope the last is a for loop.
InIteration(stk) ==
    LET holders == {j \in 1..Len(stk) : HoldsScope(stk[j])}
    IN  holders # {} /\ InForBody(stk[Greatest(holders)])

\* The names of scope that no scope of es binds.
OnlyIn(scope, es) == {name \in DOMAIN scope : innermost(es, name) = 0}

\* C24: an assignment in the body of a for loop to a name that no scope
\* binds writes the scope of the iteration and no other; the step that
\* starts the next iteration leaves of that scope the loop variable only
\* and the step that ends the loop drops it, so every such name reads as
\* Number(0) again; an assignment to a name an enclosing scope binds
\* writes that binding and nothing into the scope of the iteration, and
\* the steps that start the next iteration and end the loop keep every
\* enclosing scope as it is.
C24_BodyVariables ==
    /\ [][(ev' = "AssignSet" /\ InIteration(stack)) =>
            LET name == Top.node.name
                d == innermost(env_stack, name)
                n == Len(env_stack)
            IN  /\ Len(env_stack') = n
                /\ d = 0 =>
                     /\ \A s \in 1..(n - 1) : env_stack'[s] = env_stack[s]
                     /\ name \in DOMAIN env_stack'[n] /\ env_stack'[n][name] = ret[1]
                /\ (d # 0 /\ d < n) =>
                     /\ env_stack'[d][name] = ret[1]
                     /\ env_stack'[n] = env_stack[n]]_vars
    /\ [][ev' = "ForNext" =>
            /\ Len(env_stack') = Len(env_stack)
            /\ DOMAIN Last(env_stack') = {Top.node.var_name}
            /\ \A name \in OnlyIn(Last(env_stack), Front(env_stack)) \ {Top.node.var_name} :
                   get_variable(env_stack', name) = NumberV(0)
            /\ \A s \in 1..(Len(env_stack) - 1) : env_stack'[s] = env_stack[s]]_vars
    /\ [][ev' \in {"ForEnd", "ForReturn"} =>
            /\ env_stack' = Front(env_stack)
            /\ \A name \in OnlyIn(Last(env_stack), Front(env_stack)) :
                   get_variable(env_stack', name) = NumberV(0)]_vars

\* uchun e ichida [3, 4] { yoz b  b = e }  yoz b has ended with no b bound
\* before it: b was assigned in both iterations and read as 0 at the
\* start of each and after the loop.
C24_Witness ==
    /\ status = "done"
    /\ heap = <<<<NumberV(3), NumberV(4)>>>>
    /\ Len(env_stack) = 1
    /\ v_b \notin DOMAIN env_stack[1]
    /\ out = <<Display(NumberV(0), heap), Display(NumberV(0), heap), Display(NumberV(0), heap)>>

====
